---- MODULE Spec2Model ----
(***************************************************************************)
(* Matching engine (backend/src/exchange/engine.py) and order-book manager *)
(* (backend/src/exchange/manager.py) of the trading-competition exchange.  *)
(*                                                                         *)
(* The engine drives a liquibook DepthOrderBook.  The order book itself    *)
(* (add / cancel / replace, the queued callbacks and the depth tracker) is *)
(* modelled after the liquibook library as the engine uses it; the engine  *)
(* handlers and the manager are translated from the Python source.         *)
(*                                                                         *)
(* Prices.  An external price (SimpleOrder.price, a float) is modelled as  *)
(* a whole number of half ticks, so that round(price * PRICE_SCALE) is a   *)
(* real rounding: 1 half tick rounds to tick 0, 2 to tick 1, 3 and 4 to    *)
(* tick 2.  NoPrice stands for None (a market order).                      *)
(***************************************************************************)
EXTENDS Integers, Sequences, FiniteSets, TLC

\* ---------------------------------------------------------------- bounds
MaxOps   == 3      \* operations per behaviour
MaxQty   == 2      \* largest order quantity
MaxTeams == 3      \* teams
MaxHalf  == 3      \* largest external limit price, in half ticks

NoPrice == 0 - 1

Teams  == 1..MaxTeams
Sides  == {"buy", "sell"}
Qtys   == 1..MaxQty

\* ------------------------------------------------------- small utilities
Min(a, b) == IF a < b THEN a ELSE b
Max(a, b) == IF a > b THEN a ELSE b

RemoveAt(s, i) == SubSeq(s, 1, i - 1) \o SubSeq(s, i + 1, Len(s))
InsertAt(s, i, x) == SubSeq(s, 1, i - 1) \o <<x>> \o SubSeq(s, i, Len(s))
\* Maps (Python dicts) are functions on their keys, the empty map is <<>>.
RECURSIVE Restrict(_, _)
Restrict(f, S) ==
    IF S = {} THEN <<>>
    ELSE LET x == CHOOSE y \in S : TRUE
         IN (x :> f[x]) @@ Restrict(f, S \ {x})

DropKey(f, k) == Restrict(f, DOMAIN f \ {k})
Put(f, k, v) == (k :> v) @@ f

\* Ascending sequence of a finite set of integers.
RECURSIVE SortAsc(_)
SortAsc(S) ==
    IF S = {} THEN <<>>
    ELSE LET m == CHOOSE x \in S : \A y \in S : x <= y
         IN <<m>> \o SortAsc(S \ {m})

Reverse(s) == [i \in 1..Len(s) |-> s[Len(s) + 1 - i]]

\* --------------------------------------------------------- price arithmetic
\* round(price * PRICE_SCALE): Python rounds a half to the even neighbour.
RoundHalfEven(h) ==
    IF h % 2 = 0 THEN h \div 2
    ELSE IF ((h - 1) \div 2) % 2 = 0 THEN (h - 1) \div 2 ELSE (h + 1) \div 2

_price_to_int(price) == IF price = NoPrice THEN 0 ELSE RoundHalfEven(price)

_price_to_float(price_int) == 2 * price_int

_prices_cross(side, incoming, resting) ==
    IF incoming = 0 THEN TRUE
    ELSE IF side = "buy" THEN incoming >= resting
    ELSE incoming <= resting

\* ------------------------------------------------ library behaviour switches
\* Whether the book honours the immediate-or-cancel condition carried by the
\* liquibook order (engine.py:216-218).  The engine cancels an unfilled market
\* order itself (engine.py:159-163), so both settings end in the same book.
IocHonoured == FALSE

\* What on_replace reports as current_qty / new_qty: the order's quantity as
\* constructed (TRUE), or the quantity open in the book (FALSE).
ReplaceReportsOrderQty == TRUE

\* ===================================================== liquibook order book
\* The state e of one MatchingEngine is a record:
\*   book     [bids, asks]: sequences of trackers [lid, open] in priority order
\*   lord     liquibook.SimpleOrder objects by id: [buy, price, qty, ioc]
\*   mkt      the book's last trade price (0: none yet)
\*   cbs      callbacks queued by the book, performed in order
\*   depth    [bids, asks]: price -> [qty, cnt], the DepthOrderBook's tracker
\*   ign      [bids, asks]: fill quantity the depth tracker is told to ignore
\*   derr     the depth tracker raised an error
\*   meta     _OrderMeta objects by order id
\*   byId     keys of _orders_by_id
\*   byLid    _orders_by_liquibook: liquibook id -> order id
\*   team     _team_orders: team -> [buy, sell] -> set of liquibook ids
\*   suppress _suppress_cancel
\*   nextLid  the next liquibook order id
\*   trades, cancels   the active _EventBuffer

Callback(t, lid, m, q, p, d, inF, mF) ==
    [t |-> t, lid |-> lid, m |-> m, q |-> q, p |-> p, d |-> d, inF |-> inF, mF |-> mF]

SideOf(buy) == IF buy THEN "bids" ELSE "asks"

\* ComparablePrice::operator<: price p sorts strictly before price q.
Before(buy, p, q) ==
    IF p = 0 THEN q # 0
    ELSE IF q = 0 THEN FALSE
    ELSE IF buy THEN q < p ELSE p < q

\* ComparablePrice::matches: a resting price against an inbound price.
MatchesNever(bookBuy, bookPrice, inPrice) == FALSE

Matches(bookBuy, bookPrice, inPrice) ==
    \/ bookPrice = inPrice
    \/ IF bookBuy THEN inPrice < bookPrice \/ bookPrice = 0
       ELSE bookPrice < inPrice \/ inPrice = 0

\* Position of a tracker in one side of the book (0: not on the market).
FindOnMarket(e, lid) ==
    LET s == e.book[SideOf(e.lord[lid].buy)]
        hits == {i \in 1..Len(s) : s[i].lid = lid}
    IN IF hits = {} THEN 0 ELSE CHOOSE i \in hits : TRUE

\* multimap insert: behind every entry that does not sort after the price.
InsertTracker(e, lid, price, open) ==
    LET buy == e.lord[lid].buy
        sk == SideOf(buy)
        s == e.book[sk]
        ahead == {i \in 1..Len(s) : ~Before(buy, price, e.lord[s[i].lid].price)}
    IN [e EXCEPT !.book[sk] = InsertAt(s, Cardinality(ahead) + 1, [lid |-> lid, open |-> open])]

\* match_regular_order with create_trade: walks the opposite side from the
\* best entry; every fill is at the resting order's price.
RECURSIVE MatchFrom(_, _, _, _, _)
MatchFrom(e, lid, inPrice, open, i) ==
    LET buy == e.lord[lid].buy
        sk == SideOf(~buy)
        s == e.book[sk]
    IN IF open = 0 \/ i > Len(s) THEN [e |-> e, open |-> open]
       ELSE LET cur == s[i]
                cp == e.lord[cur.lid].price
            IN IF ~Matches(~buy, cp, inPrice) THEN [e |-> e, open |-> open]
               ELSE LET c1 == IF cp = 0 THEN e.lord[lid].price ELSE cp
                        cross == IF c1 = 0 THEN e.mkt ELSE c1
                        q == Min(open, cur.open)
                        gone == (cur.open = q)
                        e1 == [e EXCEPT
                                 !.book[sk] = IF gone THEN RemoveAt(s, i)
                                              ELSE [s EXCEPT ![i].open = @ - q],
                                 !.mkt = cross,
                                 !.cbs = Append(@, Callback("fill", lid, cur.lid, q, cross, 0,
                                                            open = q, gone))]
                    IN IF cross = 0 THEN MatchFrom(e, lid, inPrice, open, i + 1)
                       ELSE MatchFrom(e1, lid, inPrice, open - q, IF gone THEN i ELSE i + 1)

\* OrderBook::add_order: match, then rest what is left unless immediate-or-cancel.
RestTracker(r, lid, price, ioc) ==
    IF r.open > 0 /\ ~ioc
    THEN [e |-> InsertTracker(r.e, lid, price, r.open), open |-> r.open]
    ELSE r

AddTracker(e, lid, price, open, ioc) ==
    RestTracker(MatchFrom(e, lid, price, open, 1), lid, price, ioc)

\* The end of OrderBook::add: the accept callback carries the quantity matched
\* on entry, and an immediate-or-cancel remainder is cancelled.
BookAddDone(r, lid, at, qty, ioc) ==
    IF ioc /\ r.open > 0
    THEN [r.e EXCEPT !.cbs = Append([@ EXCEPT ![at].q = qty - r.open],
                                    Callback("cancel", lid, 0, 0, 0, 0, FALSE, FALSE))]
    ELSE [r.e EXCEPT !.cbs[at].q = qty - r.open]

\* OrderBook::add, before the callbacks are performed.
BookAddRaw(e, lid) ==
    IF e.lord[lid].qty = 0 THEN e
    ELSE BookAddDone(
             AddTracker([e EXCEPT !.cbs = Append(@, Callback("accept", lid, 0, 0, 0, 0,
                                                             FALSE, FALSE))],
                        lid, e.lord[lid].price, e.lord[lid].qty,
                        IocHonoured /\ e.lord[lid].ioc),
             lid, Len(e.cbs) + 1, e.lord[lid].qty, IocHonoured /\ e.lord[lid].ioc)

\* OrderBook::cancel, before the callbacks are performed.
BookCancelRaw(e, lid) ==
    LET sk == SideOf(e.lord[lid].buy)
        i == FindOnMarket(e, lid)
    IN IF i = 0 THEN e
       ELSE [e EXCEPT !.book[sk] = RemoveAt(@, i),
                      !.cbs = Append(@, Callback("cancel", lid, 0, e.book[sk][i].open, 0, 0,
                                                 FALSE, FALSE))]

\* OrderBook::replace, before the callbacks are performed: the order is taken
\* off the market and, unless the change closes it, added again.
BookReplaceRaw(e, lid, size_delta, new_price) ==
    LET sk == SideOf(e.lord[lid].buy)
        i == FindOnMarket(e, lid)
        open == e.book[sk][i].open
        delta == IF size_delta < 0 /\ open < 0 - size_delta THEN 0 - open ELSE size_delta
        price == IF new_price = 0 THEN e.lord[lid].price ELSE new_price
        e1 == [e EXCEPT !.cbs = Append(@, Callback("replace", lid, 0, open, price, delta,
                                                   FALSE, FALSE)),
                        !.book[sk] = RemoveAt(@, i)]
    IN IF i = 0 THEN e
       ELSE IF open + delta = 0
            THEN [e1 EXCEPT !.cbs = Append(@, Callback("cancel", lid, 0, 0, 0, 0, FALSE, FALSE))]
            ELSE AddTracker(e1, lid, price, open + delta, IocHonoured /\ e.lord[lid].ioc).e

\* ------------------------------------------------------------ depth tracker
\* Depth::add_order
DepthAdd(e, price, qty, isBid) ==
    LET sk == SideOf(isBid)
        d == e.depth[sk]
    IN IF price \in DOMAIN d
       THEN [e EXCEPT !.depth[sk][price] = [qty |-> @.qty + qty, cnt |-> @.cnt + 1]]
       ELSE [e EXCEPT !.depth[sk] = Put(d, price, [qty |-> qty, cnt |-> 1])]

\* Depth::close_order with DepthLevel::close_order
DepthClose(e, price, qty, isBid) ==
    LET sk == SideOf(isBid)
        d == e.depth[sk]
    IN IF price \notin DOMAIN d THEN e
       ELSE IF d[price].cnt = 1 THEN [e EXCEPT !.depth[sk] = DropKey(d, price)]
       ELSE IF d[price].qty >= qty
            THEN [e EXCEPT !.depth[sk][price] = [qty |-> @.qty - qty, cnt |-> @.cnt - 1]]
            ELSE [e EXCEPT !.depth[sk][price].cnt = @ - 1, !.derr = TRUE]

\* Depth::change_qty_order
DepthChange(e, price, delta, isBid) ==
    LET sk == SideOf(isBid)
        d == e.depth[sk]
    IN IF price \notin DOMAIN d \/ delta = 0 THEN e
       ELSE [e EXCEPT !.depth[sk][price].qty = @ + delta,
                      !.derr = @ \/ d[price].qty + delta < 0]

\* Depth::ignore_fill_qty
DepthIgnore(e, qty, isBid) ==
    LET sk == SideOf(isBid)
    IN IF e.ign[sk] # 0 THEN [e EXCEPT !.derr = TRUE]
       ELSE [e EXCEPT !.ign[sk] = qty]

\* Depth::fill_order
DepthFill(e, price, qty, filled, isBid) ==
    LET sk == SideOf(isBid)
    IN IF e.ign[sk] # 0
       THEN [e EXCEPT !.ign[sk] = IF qty > @ THEN 0 ELSE @ - qty,
                      !.derr = @ \/ qty > e.ign[sk]]
       ELSE IF filled THEN DepthClose(e, price, qty, isBid)
       ELSE DepthChange(e, price, 0 - qty, isBid)

\* Depth::replace_order
DepthReplace(e, cur_price, new_price, cur_qty, new_qty, isBid) ==
    IF cur_price = new_price THEN DepthChange(e, cur_price, new_qty - cur_qty, isBid)
    ELSE DepthClose(DepthAdd(e, new_price, new_qty, isBid), cur_price, cur_qty, isBid)

\* DepthOrderBook::on_accept: only limit orders (price > 0) reach the depth.
Depth_on_accept(e, lid, quantity) ==
    LET o == e.lord[lid]
    IN IF o.price > 0
       THEN IF quantity = o.qty THEN DepthIgnore(e, quantity, o.buy)
            ELSE DepthAdd(e, o.price, o.qty, o.buy)
       ELSE e

\* DepthOrderBook::on_fill
Depth_on_fill(e, lid, mlid, quantity, inF, mF) ==
    LET o == e.lord[lid]
        m == e.lord[mlid]
        e1 == IF m.price > 0 THEN DepthFill(e, m.price, quantity, mF, m.buy) ELSE e
    IN IF o.price > 0 THEN DepthFill(e1, o.price, quantity, inF, o.buy) ELSE e1

\* DepthOrderBook::on_cancel
Depth_on_cancel(e, lid, quantity) ==
    LET o == e.lord[lid]
    IN IF o.price > 0 THEN DepthClose(e, o.price, quantity, o.buy) ELSE e

\* DepthOrderBook::on_replace
Depth_on_replace(e, lid, cur_qty, new_qty, new_price) ==
    LET o == e.lord[lid]
    IN DepthReplace(e, o.price, new_price, cur_qty, new_qty, o.buy)

\* ========================================================= MatchingEngine
\* A SimpleOrder handed to the engine: [order_id, side, quantity, price, team_id].
SimpleOrder(order_id, side, quantity, price, team_id) ==
    [order_id |-> order_id, side |-> side, quantity |-> quantity, price |-> price,
     team_id |-> team_id]

\* MatchingEngine.__init__ / reset
EmptyEngine(nextLid) ==
    [book |-> [bids |-> <<>>, asks |-> <<>>],
     lord |-> <<>>,
     mkt |-> 0,
     cbs |-> <<>>,
     depth |-> [bids |-> <<>>, asks |-> <<>>],
     ign |-> [bids |-> 0, asks |-> 0],
     derr |-> FALSE,
     meta |-> <<>>,
     byId |-> {},
     byLid |-> <<>>,
     team |-> <<>>,
     suppress |-> {},
     nextLid |-> nextLid,
     trades |-> <<>>,
     cancels |-> <<>>]

\* liquibook.SimpleOrder(is_buy, price, qty, 0, conditions): the id is e.nextLid.
NewLiquibookOrder(e, buy, price, qty, ioc) ==
    [e EXCEPT !.lord = Put(e.lord, e.nextLid, [buy |-> buy, price |-> price, qty |-> qty, ioc |-> ioc]),
              !.nextLid = @ + 1]

_lookup_meta(e, lid) == IF lid \in DOMAIN e.byLid THEN e.byLid[lid] ELSE 0

\* self._team_orders[team_id]: the defaultdict yields two empty sets for a
\* team it does not hold.
TeamOrders(e, team_id) ==
    IF team_id \in DOMAIN e.team THEN e.team[team_id] ELSE [buy |-> {}, sell |-> {}]

_register(e, oid) ==
    LET m == e.meta[oid]
        team_orders == TeamOrders(e, m.team_id)
    IN [e EXCEPT !.team = Put(e.team, m.team_id,
                              [team_orders EXCEPT ![m.side] =
                                   team_orders[m.side] \cup {m.liquibook_id}])]

_unregister(e, oid) ==
    LET m == e.meta[oid]
        team_orders == [e.team[m.team_id] EXCEPT ![m.side] =
                            e.team[m.team_id][m.side] \ {m.liquibook_id}]
    IN IF m.team_id \notin DOMAIN e.team THEN e
       ELSE IF team_orders.buy = {} /\ team_orders.sell = {}
            THEN [e EXCEPT !.team = DropKey(e.team, m.team_id)]
       ELSE [e EXCEPT !.team = Put(e.team, m.team_id, team_orders)]

_remove_meta(e, oid) ==
    LET m == e.meta[oid]
        e1 == [e EXCEPT !.byId = e.byId \ {oid}, !.byLid = DropKey(e.byLid, m.liquibook_id)]
    IN IF m.resting THEN _unregister(e1, oid) ELSE e1

\* The tail of _handle_fill for one side: an order with nothing open leaves.
CloseIfDone(e, oid) ==
    IF e.meta[oid].open_qty = 0
    THEN LET e1 == IF e.meta[oid].resting
                   THEN _unregister([e EXCEPT !.meta[oid].resting = FALSE], oid)
                   ELSE e
         IN _remove_meta(e1, oid)
    ELSE e

\* _handle_self_trade_fill, its last four statements: both open quantities grow
\* by the fill and are written back to the orders.
SelfFillQuantities(e, passive, active, quantity) ==
    LET e4 == [e EXCEPT !.meta[passive].open_qty = @ + quantity]
        e5 == [e4 EXCEPT !.meta[active].open_qty = @ + quantity]
        e6 == [e5 EXCEPT !.meta[passive].quantity = e5.meta[passive].open_qty]
    IN [e6 EXCEPT !.meta[active].quantity = e6.meta[active].open_qty]

\* _handle_self_trade_fill, the second replace.
SelfFillActive(e, passive, active, quantity) ==
    SelfFillQuantities(
        BookReplaceRaw(e, e.meta[active].liquibook_id, quantity,
                       e.lord[e.meta[active].liquibook_id].price),
        passive, active, quantity)

\* _handle_self_trade_fill, the cancel event and the first replace.
SelfFillPassive(e, passive, active, quantity) ==
    SelfFillActive(
        BookReplaceRaw([e EXCEPT !.cancels = Append(@, [order_id |-> passive,
                                                        quantity |-> quantity]),
                                 !.meta[passive].requeued = FALSE],
                       e.meta[passive].liquibook_id, quantity,
                       e.lord[e.meta[passive].liquibook_id].price),
        passive, active, quantity)

_handle_self_trade_fill(e, inbound, resting, quantity, price_int) ==
    IF e.meta[resting].requeued
    THEN SelfFillPassive(e, resting, inbound, quantity)
    ELSE SelfFillPassive(e, inbound, resting, quantity)

\* A trade is recorded only for orders of different teams.
TradeAllowedAlways(e, inbound, resting) == TRUE

TradeAllowed(e, inbound, resting) == e.meta[inbound].team_id # e.meta[resting].team_id

_handle_fill(e, lid, mlid, quantity, price_int) ==
    LET inbound == _lookup_meta(e, lid)
        resting == _lookup_meta(e, mlid)
        buyer == IF e.meta[inbound].side = "buy" THEN inbound ELSE resting
        seller == IF e.meta[inbound].side = "buy" THEN resting ELSE inbound
        e1 == [e EXCEPT !.trades = Append(@, [buyer_order_id |-> buyer,
                                              seller_order_id |-> seller,
                                              quantity |-> quantity,
                                              price |-> _price_to_float(price_int)])]
        e2 == [e1 EXCEPT !.meta[inbound].open_qty = @ - quantity]
        e3 == [e2 EXCEPT !.meta[resting].open_qty = @ - quantity]
        e4 == [e3 EXCEPT !.meta[inbound].quantity = e3.meta[inbound].open_qty]
        e5 == [e4 EXCEPT !.meta[resting].quantity = e4.meta[resting].open_qty]
    IN IF inbound = 0 \/ resting = 0 THEN e
       ELSE IF ~TradeAllowed(e, inbound, resting)
            THEN _handle_self_trade_fill(e, inbound, resting, quantity, price_int)
       ELSE CloseIfDone(CloseIfDone(e5, inbound), resting)

_handle_cancel(e, lid, quantity) ==
    LET oid == _lookup_meta(e, lid)
        e1 == [e EXCEPT !.meta[oid].open_qty = 0, !.meta[oid].quantity = 0]
        e2 == IF e1.meta[oid].resting
              THEN _unregister([e1 EXCEPT !.meta[oid].resting = FALSE], oid)
              ELSE e1
        e3 == _remove_meta(e2, oid)
    IN IF oid = 0 THEN e
       ELSE IF oid \in e3.suppress THEN [e3 EXCEPT !.suppress = e3.suppress \ {oid}]
       ELSE IF quantity > 0
            THEN [e3 EXCEPT !.cancels = Append(@, [order_id |-> oid, quantity |-> quantity])]
       ELSE e3

_handle_replace(e, lid, current_qty, new_qty) ==
    LET oid == _lookup_meta(e, lid)
        hasPrice == e.meta[oid].price # NoPrice
        pint == e.lord[lid].price
        e1 == [e EXCEPT !.meta[oid].open_qty = new_qty,
                        !.meta[oid].quantity = new_qty,
                        !.meta[oid].price_int = pint,
                        !.meta[oid].price = IF hasPrice THEN _price_to_float(pint) ELSE NoPrice,
                        !.meta[oid].resting = (new_qty > 0 /\ hasPrice)]
        e2 == IF e1.meta[oid].resting THEN _register(e1, oid) ELSE _unregister(e1, oid)
        cancel_qty == current_qty - new_qty
    IN IF oid = 0 THEN e
       ELSE IF cancel_qty > 0
            THEN [e2 EXCEPT !.cancels = Append(@, [order_id |-> oid, quantity |-> cancel_qty])]
       ELSE e2

\* _SimpleOrderBook.on_fill / on_cancel / on_replace: the depth tracker's
\* handler first, then the engine's.
on_fill(e, cb) ==
    _handle_fill(Depth_on_fill(e, cb.lid, cb.m, cb.q, cb.inF, cb.mF), cb.lid, cb.m, cb.q, cb.p)

on_cancel(e, cb) == _handle_cancel(Depth_on_cancel(e, cb.lid, cb.q), cb.lid, cb.q)

on_replace(e, cb) ==
    LET cur == IF ReplaceReportsOrderQty THEN e.lord[cb.lid].qty ELSE cb.q
    IN _handle_replace(Depth_on_replace(e, cb.lid, cur, cur + cb.d, cb.p), cb.lid, cur, cur + cb.d)

\* OrderBook::perform_callback
PerformCallback(e, cb) ==
    CASE cb.t = "accept" -> Depth_on_accept(e, cb.lid, cb.q)
      [] cb.t = "fill" -> on_fill(e, cb)
      [] cb.t = "cancel" -> on_cancel(e, cb)
      [] cb.t = "replace" -> on_replace(e, cb)

\* OrderBook::callback_now: queued callbacks run in order; a handler that calls
\* the book again only queues more.
RECURSIVE CallbackNow(_)
CallbackNow(e) ==
    IF e.cbs = <<>> THEN e
    ELSE CallbackNow(PerformCallback([e EXCEPT !.cbs = Tail(@)], Head(e.cbs)))

BookAdd(e, lid) == CallbackNow(BookAddRaw(e, lid))
BookCancel(e, lid) == CallbackNow(BookCancelRaw(e, lid))
BookReplace(e, lid, size_delta, new_price) ==
    CallbackNow(BookReplaceRaw(e, lid, size_delta, new_price))

\* _enter_order up to the call of book.add: the liquibook order and the meta.
EnterNew(e, order) ==
    LET price_int == _price_to_int(order.price)
        e1 == NewLiquibookOrder(e, order.side = "buy", price_int, order.quantity,
                                order.price = NoPrice)
        m == [team_id |-> order.team_id, side |-> order.side, price_int |-> price_int,
              liquibook_id |-> e.nextLid, open_qty |-> order.quantity, resting |-> FALSE,
              requeued |-> FALSE, quantity |-> order.quantity, price |-> order.price]
    IN [e1 EXCEPT !.meta = Put(e1.meta, order.order_id, m),
                  !.byId = e1.byId \cup {order.order_id},
                  !.byLid = Put(e1.byLid, e.nextLid, order.order_id)]

\* _enter_order after book.add: the order's quantity is written back, the
\* order is registered as resting or its meta is dropped.
EnterDone(e, order) ==
    LET oid == order.order_id
        e4 == [e EXCEPT !.meta[oid].quantity = e.meta[oid].open_qty]
    IN IF order.price # NoPrice /\ e.meta[oid].open_qty > 0
       THEN _register([e4 EXCEPT !.meta[oid].resting = TRUE], oid)
       ELSE IF e.meta[oid].open_qty = 0 THEN _remove_meta(e4, oid)
       ELSE e4

\* _enter_order: the order's quantity is written back into its meta.
_enter_order(e, order) == EnterDone(BookAdd(EnterNew(e, order), e.nextLid), order)

\* The re-entry of an order under a new liquibook order (the body of the loop
\* of _requeue_orders; add_order re-adds the inbound order the same way).
Reenter(e, oid, remainder, price_int, markRequeued) ==
    LET lid == e.nextLid
        e1 == NewLiquibookOrder(e, e.meta[oid].side = "buy", price_int, remainder, FALSE)
        e2 == [e1 EXCEPT !.meta[oid].liquibook_id = lid,
                         !.meta[oid].open_qty = remainder,
                         !.meta[oid].quantity = remainder,
                         !.meta[oid].resting = TRUE,
                         !.meta[oid].requeued = markRequeued \/ e1.meta[oid].requeued,
                         !.byId = e1.byId \cup {oid},
                         !.byLid = Put(e1.byLid, lid, oid)]
    IN BookAdd(_register(e2, oid), lid)

RECURSIVE _requeue_orders(_, _)
_requeue_orders(e, requeue) ==
    IF requeue = <<>> THEN e
    ELSE LET oid == Head(requeue)[1]
             remainder == Head(requeue)[2]
         IN IF remainder <= 0 THEN _requeue_orders(e, Tail(requeue))
            ELSE _requeue_orders(
                     Reenter(e, oid, remainder, _price_to_int(e.meta[oid].price), TRUE),
                     Tail(requeue))

\* How much of a resting own order the pre-pass takes.
StpCancelQty(remaining_qty, current_open) == Min(remaining_qty, current_open)

\* The partial cancel of _self_trade_prevent after book.replace: the remainder
\* is written to the meta and the order is taken off the book, its cancel
\* suppressed.
StpTakeOff(e, oid, lid, remainder) ==
    BookCancel([e EXCEPT !.meta[oid].open_qty = remainder,
                         !.meta[oid].quantity = remainder,
                         !.meta[oid].resting = FALSE,
                         !.suppress = e.suppress \cup {oid}],
               lid)

\* One cancel of _self_trade_prevent: the whole order, or a part of it.
StpCancel(e, oid, lid, cancel_qty, current_open) ==
    IF cancel_qty >= current_open THEN BookCancel(e, lid)
    ELSE StpTakeOff(BookReplace(_unregister(e, oid), lid, 0 - cancel_qty, e.lord[lid].price),
                    oid, lid, current_open - cancel_qty)

\* The loop of _self_trade_prevent over the candidates (liquibook ids, in the
\* order the set yields them): [e, requeue, remaining].
RECURSIVE StpLoop(_, _, _, _, _, _)
StpNext(e, incoming, price_int, rest, remaining_qty, requeue) ==
    IF remaining_qty <= 0
    THEN [e |-> e, requeue |-> requeue, remaining |-> remaining_qty]
    ELSE StpLoop(e, incoming, price_int, rest, remaining_qty, requeue)

StpLoop(e, incoming, price_int, candidates, remaining_qty, requeue) ==
    IF candidates = <<>> THEN [e |-> e, requeue |-> requeue, remaining |-> remaining_qty]
    ELSE
    LET lid == Head(candidates)
        rest == Tail(candidates)
        opp == IF incoming.side = "buy" THEN "sell" ELSE "buy"
        oid == _lookup_meta(e, lid)
        m == e.meta[oid]
        team_set == TeamOrders(e, incoming.team_id)
        discarded == IF incoming.team_id \notin DOMAIN e.team THEN e
                     ELSE [e EXCEPT !.team = Put(e.team, incoming.team_id,
                                                 [team_set EXCEPT ![opp] = team_set[opp] \ {lid}])]
        current_open == m.open_qty
        cancel_qty == StpCancelQty(remaining_qty, current_open)
    IN IF oid = 0 THEN StpLoop(discarded, incoming, price_int, rest, remaining_qty, requeue)
       ELSE IF ~m.resting
            THEN StpLoop(discarded, incoming, price_int, rest, remaining_qty, requeue)
       ELSE IF ~_prices_cross(incoming.side, price_int, m.price_int)
            THEN StpLoop(e, incoming, price_int, rest, remaining_qty, requeue)
       ELSE IF current_open <= 0
            THEN StpLoop(discarded, incoming, price_int, rest, remaining_qty, requeue)
       ELSE IF cancel_qty <= 0
            THEN StpLoop(e, incoming, price_int, rest, remaining_qty, requeue)
       ELSE StpNext(StpCancel(e, oid, lid, cancel_qty, current_open),
                    incoming, price_int, rest, remaining_qty - cancel_qty,
                    IF cancel_qty >= current_open THEN requeue
                    ELSE Append(requeue, <<oid, current_open - cancel_qty>>))

\* The order in which list(team_set[opposite_side]) yields the ids of a set.
SetOrder(S, asc) == IF asc THEN SortAsc(S) ELSE Reverse(SortAsc(S))

\* The end of _self_trade_prevent: a market order's quantity is reduced to what
\* the pre-pass left.
StpOrder(r, incoming) ==
    [e |-> r.e, requeue |-> r.requeue,
     order |-> IF incoming.price = NoPrice
               THEN [incoming EXCEPT !.quantity = Max(r.remaining, 0)]
               ELSE incoming]

\* _self_trade_prevent: [e, requeue, order].
_self_trade_prevent(e, incoming, asc) ==
    LET opp == IF incoming.side = "buy" THEN "sell" ELSE "buy"
        cands == TeamOrders(e, incoming.team_id)[opp]
    IN IF cands = {} THEN [e |-> e, requeue |-> <<>>, order |-> incoming]
       ELSE StpOrder(StpLoop(e, incoming, _price_to_int(incoming.price),
                             SetOrder(cands, asc), incoming.quantity, <<>>),
                     incoming)

\* add_order, its last step: the inbound order is added again behind the
\* requeued orders.
AddInboundAgain(e, order, inbound_remainder, re_add_inbound) ==
    IF re_add_inbound /\ order.price # NoPrice
    THEN Reenter(e, order.order_id, inbound_remainder, _price_to_int(order.price), FALSE)
    ELSE e

\* add_order, the requeue of the partly cancelled orders.
AddRequeue(e, order, requeue, inbound_remainder, re_add_inbound) ==
    AddInboundAgain(IF requeue # <<>> THEN _requeue_orders(e, requeue) ELSE e,
                    order, inbound_remainder, re_add_inbound)

\* add_order after _enter_order: what is left of the inbound order is taken off
\* the book when orders wait for requeue or when it is a market order.
AddEntered(e, order, requeue) ==
    LET oid == order.order_id
        inbound_remainder == e.meta[oid].open_qty
        lid == e.meta[oid].liquibook_id
        re_add_inbound == requeue # <<>> /\ inbound_remainder > 0
        marked == [e EXCEPT !.suppress = e.suppress \cup {oid}]
    IN AddRequeue(IF re_add_inbound THEN BookCancel(marked, lid)
                  ELSE IF order.price = NoPrice /\ inbound_remainder > 0
                       THEN [BookCancel(marked, lid) EXCEPT !.meta[oid].open_qty = 0]
                  ELSE e,
                  order, requeue, inbound_remainder, re_add_inbound)

\* add_order after _self_trade_prevent.
AddPrevented(stp) == AddEntered(_enter_order(stp.e, stp.order), stp.order, stp.requeue)

\* MatchingEngine.add_order; the events are left in e.trades and e.cancels.
add_order(e0, order0, asc) ==
    AddPrevented(_self_trade_prevent([e0 EXCEPT !.trades = <<>>, !.cancels = <<>>],
                                     order0, asc))

\* MatchingEngine.add_resting_order: the events are discarded.
add_resting_order(e, order) ==
    [_enter_order(e, order) EXCEPT !.trades = <<>>, !.cancels = <<>>]

\* MatchingEngine.remove_order: [e, found]
remove_order(e, order_id) ==
    IF order_id \notin e.byId THEN [e |-> e, found |-> FALSE]
    ELSE [e |-> [BookCancel(e, e.meta[order_id].liquibook_id)
                    EXCEPT !.trades = <<>>, !.cancels = <<>>],
          found |-> TRUE]

\* MatchingEngine.get_orderbook_levels, one side: the depth tracker's levels
\* with a quantity, best first, as (price, quantity).
RECURSIVE LevelsOf(_, _)
LevelsOf(d, prices) ==
    IF prices = <<>> THEN <<>>
    ELSE IF d[Head(prices)].qty > 0
         THEN <<[price |-> _price_to_float(Head(prices)), quantity |-> d[Head(prices)].qty]>>
                  \o LevelsOf(d, Tail(prices))
         ELSE LevelsOf(d, Tail(prices))

get_orderbook_levels(e) ==
    [bids |-> LevelsOf(e.depth.bids, Reverse(SortAsc(DOMAIN e.depth.bids))),
     asks |-> LevelsOf(e.depth.asks, SortAsc(DOMAIN e.depth.asks))]

\* The loop of get_orderbook_levels over one side with its depth argument:
\* a level with a quantity is appended, then the length is compared.
RECURSIVE LevelsLoop(_, _, _, _)
LevelsLoop(d, prices, depth, acc) ==
    IF prices = <<>> THEN acc
    ELSE IF Len(IF d[Head(prices)].qty > 0
                THEN Append(acc, [price |-> _price_to_float(Head(prices)),
                                  quantity |-> d[Head(prices)].qty])
                ELSE acc) >= depth
         THEN IF d[Head(prices)].qty > 0
              THEN Append(acc, [price |-> _price_to_float(Head(prices)),
                                quantity |-> d[Head(prices)].qty])
              ELSE acc
         ELSE LevelsLoop(d, Tail(prices), depth,
                         IF d[Head(prices)].qty > 0
                         THEN Append(acc, [price |-> _price_to_float(Head(prices)),
                                           quantity |-> d[Head(prices)].qty])
                         ELSE acc)

\* MatchingEngine.get_orderbook_levels(depth).
engine_get_orderbook_levels(e, depth) ==
    [bids |-> LevelsLoop(e.depth.bids, Reverse(SortAsc(DOMAIN e.depth.bids)), depth, <<>>),
     asks |-> LevelsLoop(e.depth.asks, SortAsc(DOMAIN e.depth.asks), depth, <<>>)]

\* ExchangeManager.get_orderbook_levels(symbol_code, depth): known says that
\* the manager has an OrderBookState for the symbol.
manager_get_orderbook_levels(known, isLoaded, e, depth) ==
    IF ~known \/ ~isLoaded THEN [bids |-> <<>>, asks |-> <<>>]
    ELSE engine_get_orderbook_levels(e, depth)

\* ========================================================= ExchangeManager
\* One symbol.  The store holds the order rows (rows[id], ids in creation
\* order) and the trade rows; the manager holds the symbol's OrderBookState.
VARIABLES
    eng,            \* OrderBookState.engine
    loaded,         \* OrderBookState.loaded
    simple_orders,  \* keys of OrderBookState.simple_orders
    order_models,   \* keys of OrderBookState.order_models
    rows,           \* Order rows of the store
    tradeRows,      \* Trade rows of the store
    positions,      \* Position rows of the store, by team
    other_positions,\* Position rows of a second symbol, by team
    sym_row,        \* the Symbol row as the order request in flight has read it
    inflight,       \* order requests whose place_and_match has run add_order and
                    \* has not returned: id, order, trades, cancels
    sym,            \* the Symbol row: trading_halted, settlement_active, settlement_price
    cancelling,     \* ids whose cancel request has committed the row and has not
                    \* yet called remove_from_book
    notifier,       \* WebSocketManager.connections and the broadcast in progress
    nOps,           \* operations so far
    last            \* the last operation: its input, what the engine returned,
                    \* and the engine as it was when add_order was called

vars == <<notifier, eng, loaded, simple_orders, order_models, rows, tradeRows, positions,
          other_positions, sym, sym_row, inflight,
          cancelling, nOps, last>>

OpenStatus == {"pending", "partial"}

\* _simple_from_model
_simple_from_model(rws, id, remaining) ==
    SimpleOrder(id, rws[id].side, remaining, rws[id].price, rws[id].team_id)

\* _populate_state_from_orders: [eng, simple_orders, order_models]
RECURSIVE PopulateFrom(_, _, _, _)
PopulateFrom(st, rws, ids, exclude) ==
    IF ids = <<>> THEN st
    ELSE LET id == Head(ids)
             r == rws[id]
             remaining == r.quantity - r.filled_quantity
         IN IF \/ id \in exclude
               \/ remaining <= 0
               \/ r.order_type = "market"
               \/ r.price = NoPrice
            THEN PopulateFrom(st, rws, Tail(ids), exclude)
            ELSE PopulateFrom(
                     [eng |-> add_resting_order(st.eng, _simple_from_model(rws, id, remaining)),
                      simple_orders |-> st.simple_orders \cup {id},
                      order_models |-> st.order_models \cup {id}],
                     rws, Tail(ids), exclude)

\* load_open_orders for the symbol: the open rows in (created_at, id) order.
load_open_orders(e, rws, exclude) ==
    PopulateFrom([eng |-> EmptyEngine(e.nextLid), simple_orders |-> {}, order_models |-> {}],
                 rws,
                 SortAsc({id \in DOMAIN rws : rws[id].status \in OpenStatus}),
                 exclude)

\* ensure_symbol_loaded: [eng, simple_orders, order_models]
ensure_symbol_loaded(e, isLoaded, so, om, rws, exclude) ==
    IF ~isLoaded THEN load_open_orders(e, rws, exclude)
    ELSE LET ex == SortAsc(exclude)
         IN IF ex = <<>> THEN [eng |-> e, simple_orders |-> so, order_models |-> om]
            ELSE [eng |-> remove_order(e, ex[1]).e,
                  simple_orders |-> so \ exclude,
                  order_models |-> om \ exclude]

\* ---------------------------------------------------------------- positions
\* average_price and realized_pnl are fractions n/d in lowest terms (d > 0);
\* Null stands for None.  Trade prices are external prices (half ticks).
RECURSIVE Gcd(_, _)
Gcd(a, b) == IF b = 0 THEN a ELSE Gcd(b, a % b)

Abs(a) == IF a < 0 THEN 0 - a ELSE a

Rat(n, d) ==
    LET g == Gcd(Abs(n), d)
    IN [n |-> n \div g, d |-> d \div g]

Null == [n |-> 0, d |-> 0]
RatInt(k) == [n |-> k, d |-> 1]
RatAdd(x, y) == Rat(x.n * y.d + y.n * x.d, x.d * y.d)
RatSub(x, y) == Rat(x.n * y.d - y.n * x.d, x.d * y.d)
RatMulInt(x, k) == Rat(x.n * k, x.d)
RatDivInt(x, k) == Rat(x.n, x.d * k)

\* PositionModel(quantity=0, average_price=None, realized_pnl=0)
NewPosition == [quantity |-> 0, average_price |-> Null, realized_pnl |-> RatInt(0)]

\* A trade application that nets the quantity and realizes nothing.
ApplyTradeRealizesNothing(pos, side, qty, price) ==
    LET q == IF side = "buy" THEN pos.quantity + qty ELSE pos.quantity - qty
    IN [pos EXCEPT !.quantity = q,
                   !.average_price = IF q = 0 THEN Null ELSE RatInt(price)]

\* _apply_trade_to_position, from qty_curr = pos.quantity on.
_apply_trade_to_position(pos, side, qty, price) ==
    LET qty_curr == pos.quantity
        avg == pos.average_price
        p == RatInt(price)
        cover == Min(qty, 0 - qty_curr)
        sell == Min(qty, qty_curr)
    IN IF side = "buy"
       THEN IF qty_curr >= 0
            THEN [pos EXCEPT
                    !.average_price =
                        IF avg = Null \/ qty_curr = 0 THEN p
                        ELSE RatDivInt(RatAdd(RatMulInt(avg, qty_curr), RatMulInt(p, qty)),
                                       qty_curr + qty),
                    !.quantity = qty_curr + qty]
            ELSE [pos EXCEPT
                    !.realized_pnl =
                        IF avg # Null
                        THEN RatAdd(pos.realized_pnl, RatMulInt(RatSub(avg, p), cover))
                        ELSE pos.realized_pnl,
                    !.average_price =
                        IF qty - cover > 0 THEN p
                        ELSE IF qty_curr + cover = 0 THEN Null ELSE avg,
                    !.quantity = IF qty - cover > 0 THEN qty - cover ELSE qty_curr + cover]
       ELSE IF qty_curr <= 0
            THEN [pos EXCEPT
                    !.average_price =
                        IF avg = Null \/ qty_curr = 0 THEN p
                        ELSE RatDivInt(RatAdd(RatMulInt(avg, 0 - qty_curr), RatMulInt(p, qty)),
                                       (0 - qty_curr) + qty),
                    !.quantity = qty_curr - qty]
            ELSE [pos EXCEPT
                    !.realized_pnl =
                        IF avg # Null
                        THEN RatAdd(pos.realized_pnl, RatMulInt(RatSub(p, avg), sell))
                        ELSE pos.realized_pnl,
                    !.average_price =
                        IF qty - sell > 0 THEN p
                        ELSE IF qty_curr - sell = 0 THEN Null ELSE avg,
                    !.quantity = IF qty - sell > 0 THEN 0 - (qty - sell) ELSE qty_curr - sell]

\* session.get(PositionModel, ...), or the new row created when there is none.
PositionOf(pos, team_id) == IF team_id \in DOMAIN pos THEN pos[team_id] ELSE NewPosition

\* The two calls of _apply_trade_to_position for one trade.
ApplyTradeToPositions(pos, buyer_team, seller_team, qty, price) ==
    LET p1 == Put(pos, buyer_team,
                  _apply_trade_to_position(PositionOf(pos, buyer_team), "buy", qty, price))
    IN Put(p1, seller_team,
           _apply_trade_to_position(PositionOf(p1, seller_team), "sell", qty, price))

\* _apply_fill_to_order
_apply_fill_to_order(row, qty) ==
    LET f == row.filled_quantity + qty
    IN [row EXCEPT !.filled_quantity = f,
                   !.status = IF f >= row.quantity THEN "filled" ELSE "partial"]

\* The loop over simple_trades: [rows, tradeRows, positions]
RECURSIVE ApplyTrades(_, _, _, _)
ApplyTrades(rws, trs, pos, trades) ==
    IF trades = <<>> THEN [rows |-> rws, tradeRows |-> trs, positions |-> pos]
    ELSE LET t == Head(trades)
             b == t.buyer_order_id
             sl == t.seller_order_id
             r1 == [rws EXCEPT ![b] = _apply_fill_to_order(rws[b], t.quantity)]
             r2 == [r1 EXCEPT ![sl] = _apply_fill_to_order(r1[sl], t.quantity)]
         IN IF b \notin DOMAIN rws \/ sl \notin DOMAIN rws
            THEN ApplyTrades(rws, trs, pos, Tail(trades))
            ELSE ApplyTrades(r2,
                             Append(trs, [buyer_order_id |-> b, seller_order_id |-> sl,
                                          quantity |-> t.quantity, price |-> t.price]),
                             ApplyTradeToPositions(pos, rws[b].team_id, rws[sl].team_id,
                                                   t.quantity, t.price),
                             Tail(trades))

\* The loop over simple_cancels.
RECURSIVE ApplyCancels(_, _)
ApplyCancels(rws, cancels) ==
    IF cancels = <<>> THEN rws
    ELSE LET c == Head(cancels)
             f == rws[c.order_id].filled_quantity + c.quantity
         IN IF c.order_id \notin DOMAIN rws THEN ApplyCancels(rws, Tail(cancels))
            ELSE ApplyCancels(
                     [rws EXCEPT ![c.order_id].filled_quantity = f,
                                 ![c.order_id].status =
                                     IF f >= rws[c.order_id].quantity THEN "cancelled"
                                     ELSE "partial"],
                     Tail(cancels))

\* _cleanup_orders: [eng, simple_orders, order_models]
RECURSIVE _cleanup_orders(_, _, _)
_cleanup_orders(st, rws, ids) ==
    IF ids = <<>> THEN st
    ELSE LET id == Head(ids)
             rm == id \in st.simple_orders /\ st.eng.meta[id].quantity <= 0
             e1 == IF rm THEN remove_order(st.eng, id).e ELSE st.eng
             so1 == IF rm THEN st.simple_orders \ {id} ELSE st.simple_orders
             terminal == id \in st.order_models /\ rws[id].status \in {"filled", "cancelled"}
         IN _cleanup_orders(
                [eng |-> e1,
                 simple_orders |-> IF terminal THEN so1 \ {id} ELSE so1,
                 order_models |-> IF terminal THEN st.order_models \ {id} ELSE st.order_models],
                rws, Tail(ids))

\* _update_new_order_status
_update_new_order_status(row) ==
    [row EXCEPT !.status =
        IF row.order_type = "market"
        THEN IF row.filled_quantity >= row.quantity THEN "filled" ELSE "cancelled"
        ELSE IF row.filled_quantity >= row.quantity THEN "filled"
        ELSE IF row.filled_quantity > 0 THEN "partial"
        ELSE "pending"]

Ids(evs) == {evs[i].order_id : i \in 1..Len(evs)}
TradeIds(trs) == {trs[i].buyer_order_id : i \in 1..Len(trs)}
                     \cup {trs[i].seller_order_id : i \in 1..Len(trs)}

\* ------------------------------------------------------------------ actions
Init ==
    /\ eng = EmptyEngine(1)
    /\ loaded = FALSE
    /\ simple_orders = {}
    /\ order_models = {}
    /\ rows = <<>>
    /\ tradeRows = <<>>
    /\ positions = <<>>
    /\ other_positions = <<>>
    /\ sym = [trading_halted |-> FALSE, settlement_active |-> FALSE, settlement_price |-> Null]
    /\ sym_row = [trading_halted |-> FALSE, settlement_active |-> FALSE, settlement_price |-> Null]
    /\ cancelling = {}
    /\ inflight = <<>>
    /\ notifier = [connections |-> <<>>, phase |-> "idle", used |-> 0, cur |-> 0,
                   started |-> {}, delivered |-> {}, disconnected |-> <<>>]
    /\ nOps = 0
    /\ last = [op |-> "init"]

\* Teams are interchangeable: a new order comes from a team already seen or
\* from the next unseen one.
TeamsSeen == {rows[id].team_id : id \in DOMAIN rows}
TeamChoices == {t \in Teams : \A u \in 1..(t - 1) : u \in TeamsSeen}

\* Limit prices offered to the API (price > 0): 1 half tick is a price below
\* half a tick, which round() takes to tick 0.
LimitPrices == 1..MaxHalf

\* place_and_match after _cleanup_orders, and the route's commit.
PlaceCleaned(cl, rows2, ap, id, new_order, pre, e1) ==
    /\ eng' = cl.eng
    /\ loaded' = TRUE
    /\ simple_orders' = cl.simple_orders
    /\ order_models' = cl.order_models
    /\ rows' = [rows2 EXCEPT ![id] = _update_new_order_status(rows2[id])]
    /\ tradeRows' = ap.tradeRows
    /\ positions' = ap.positions
    /\ UNCHANGED <<notifier, sym, other_positions, cancelling, sym_row, inflight>>
    /\ nOps' = nOps + 1
    /\ last' = [op |-> "place", order |-> new_order, pre |-> pre, post |-> e1,
                trades |-> e1.trades, cancels |-> e1.cancels]

\* place_and_match after the events are applied to the rows.
PlaceApplied(ap, st, rows2, id, new_order, e1) ==
    PlaceCleaned(
        _cleanup_orders(
            [eng |-> e1,
             simple_orders |-> IF e1.meta[id].price # NoPrice /\ e1.meta[id].quantity > 0
                               THEN st.simple_orders \cup {id}
                               ELSE st.simple_orders \ {id},
             order_models |-> st.order_models \cup {id}],
            rows2,
            SortAsc({id} \cup TradeIds(e1.trades) \cup Ids(e1.cancels))),
        rows2, ap, id, new_order, st.eng, e1)

\* place_and_match after add_order: the trades and cancels are applied.
PlaceTraded(ap, st, id, new_order, e1) ==
    PlaceApplied(ap, st, ApplyCancels(ap.rows, e1.cancels), id, new_order, e1)

PlaceMatched(st, rows1, id, new_order, e1) ==
    PlaceTraded(ApplyTrades(rows1, tradeRows, positions, e1.trades), st, id, new_order, e1)

\* place_and_match after ensure_symbol_loaded.
PlaceLoaded(st, rows1, id, new_order, asc) ==
    /\ asc \/ Cardinality(TeamOrders(st.eng, new_order.team_id)[IF new_order.side = "buy"
                                                                THEN "sell" ELSE "buy"]) > 1
    /\ PlaceMatched(st, rows1, id, new_order, add_order(st.eng, new_order, asc))

\* The order row OrderService.place_order creates.
NewRow(team, side, order_type, quantity, price) ==
    [team_id |-> team, side |-> side,
     order_type |-> order_type,
     quantity |-> quantity, price |-> price, filled_quantity |-> 0,
     status |-> "pending"]

\* POST /orders after the trading controls: OrderService.place_order creates
\* the row, place_and_match is given that row, runs the engine and applies
\* its events, the route commits.
PlaceAccepted(team, side, order_type, quantity, price, asc) ==
    /\ PlaceLoaded(
           ensure_symbol_loaded(eng, loaded, simple_orders, order_models,
                                Append(rows, NewRow(team, side, order_type, quantity, price)),
                                {Len(rows) + 1}),
           Append(rows, NewRow(team, side, order_type, quantity, price)),
           Len(rows) + 1,
           SimpleOrder(Len(rows) + 1, side, quantity, price, team),
           asc)

\* POST /orders: refused (403) while the symbol row it reads is halted or
\* settled.
PlaceOrder(team, side, order_type, quantity, price, asc) ==
    /\ ~sym.trading_halted /\ ~sym.settlement_active
    /\ PlaceAccepted(team, side, order_type, quantity, price, asc)

\* The order type a client gives that sends a price with a limit order and
\* none with a market order.
TypeOf(price) == IF price = NoPrice THEN "market" ELSE "limit"

\* remove_from_book
remove_from_book(st, id) ==
    /\ eng' = remove_order(st.eng, id).e
    /\ loaded' = TRUE
    /\ simple_orders' = st.simple_orders \ {id}
    /\ order_models' = st.order_models \ {id}

\* DELETE /orders/{id}: the row is set to cancelled and committed, then the
\* order is taken out of the book.
CancelOrder(id) ==
    /\ id \in DOMAIN rows
    /\ rows' = [rows EXCEPT ![id].status = "cancelled"]
    /\ remove_from_book(
           ensure_symbol_loaded(eng, loaded, simple_orders, order_models,
                                [rows EXCEPT ![id].status = "cancelled"], {}),
           id)
    /\ nOps' = nOps + 1
    /\ last' = [op |-> "cancel", id |-> id, status_code |-> 200]
    /\ UNCHANGED <<notifier, tradeRows, positions, sym, other_positions, cancelling, sym_row, inflight>>

\* A new process: a fresh ExchangeManager with nothing loaded.
Restart ==
    /\ loaded
    /\ eng' = EmptyEngine(eng.nextLid)
    /\ loaded' = FALSE
    /\ simple_orders' = {}
    /\ order_models' = {}
    /\ nOps' = nOps + 1
    /\ last' = [op |-> "restart"]
    /\ UNCHANGED <<notifier, rows, tradeRows, positions, sym, other_positions, cancelling, sym_row, inflight>>

Place ==
    /\ nOps < MaxOps
    /\ \E team \in TeamChoices, side \in Sides, quantity \in Qtys,
          price \in {NoPrice} \cup LimitPrices, asc \in BOOLEAN :
           PlaceOrder(team, side, TypeOf(price), quantity, price, asc)

Cancel ==
    /\ nOps < MaxOps
    /\ \E id \in DOMAIN rows : CancelOrder(id)

Reboot ==
    /\ nOps < MaxOps
    /\ Restart

Next == Place \/ Cancel \/ Reboot

Spec == Init /\ [][Next]_vars

\* A longer run of limit orders at one price: enough for a resting order to
\* be partly cancelled by its own team and then met by a third team.
DeepPrice == 2
PlaceDeep ==
    /\ nOps < MaxOps + 1
    /\ \E team \in TeamChoices, side \in Sides, quantity \in Qtys, asc \in BOOLEAN :
           PlaceOrder(team, side, "limit", quantity, DeepPrice, asc)

NextDeep == PlaceDeep

SpecDeep == Init /\ [][NextDeep]_vars

\* The whole order API: any order type with any price field, and a cancel for
\* any id, also one that names no order.
OrderTypes == {"market", "limit"}

PlaceAny ==
    /\ nOps < MaxOps
    /\ \E team \in TeamChoices, side \in Sides, order_type \in OrderTypes,
          quantity \in Qtys, price \in {NoPrice} \cup LimitPrices, asc \in BOOLEAN :
           PlaceOrder(team, side, order_type, quantity, price, asc)

\* DELETE /orders/{id} for an id session.get does not find: 404.
CancelMissing(id) ==
    /\ id \notin DOMAIN rows
    /\ nOps' = nOps + 1
    /\ last' = [op |-> "cancel", id |-> id, status_code |-> 404]
    /\ UNCHANGED <<notifier, eng, loaded, simple_orders, order_models, rows, tradeRows, positions,
                   sym, other_positions, cancelling, sym_row, inflight>>

CancelAny ==
    /\ nOps < MaxOps
    /\ \E id \in 1..(Len(rows) + 1) : CancelOrder(id) \/ CancelMissing(id)

NextApi == PlaceAny \/ CancelAny \/ Reboot

SpecApi == Init /\ [][NextApi]_vars

\* DELETE /orders/{id} as the event loop runs it.  The request is suspended in
\* `await session.commit()`; other requests run before it goes on to
\* remove_from_book.
\* First half: session.get finds the row, the UPDATE and the commit.
CancelCommit(id) ==
    /\ id \in DOMAIN rows
    /\ id \notin cancelling
    /\ rows' = [rows EXCEPT ![id].status = "cancelled"]
    /\ cancelling' = cancelling \cup {id}
    /\ nOps' = nOps + 1
    /\ last' = [op |-> "cancel_commit", id |-> id]
    /\ UNCHANGED <<notifier, eng, loaded, simple_orders, order_models, tradeRows, positions, sym,
                   other_positions, sym_row, inflight>>

\* Second half: ensure_symbol_loaded, remove_from_book and the answer.
CancelFinish(id) ==
    /\ id \in cancelling
    /\ remove_from_book(
           ensure_symbol_loaded(eng, loaded, simple_orders, order_models, rows, {}),
           id)
    /\ cancelling' = cancelling \ {id}
    /\ last' = [op |-> "cancel", id |-> id, status_code |-> 200]
    /\ UNCHANGED <<notifier, rows, tradeRows, positions, sym, other_positions, nOps, sym_row, inflight>>

CancelBegin ==
    /\ nOps < MaxOps
    /\ \E id \in DOMAIN rows : CancelCommit(id)

CancelEnd == \E id \in cancelling : CancelFinish(id)

NextRace == Place \/ CancelBegin \/ CancelEnd \/ Reboot

SpecRace == Init /\ [][NextRace]_vars

\* ------------------------------------------------ positions and settlement
\* A settlement that flattens the position and keeps its average.
SettlePositionKeepsAverage(pos, price) ==
    IF pos.quantity = 0 \/ pos.average_price = Null THEN pos
    ELSE [pos EXCEPT !.quantity = 0]

\* A settlement that flattens the position and realizes nothing.
SettlePositionAtAverage(pos, price) ==
    IF pos.quantity = 0 \/ pos.average_price = Null THEN pos
    ELSE [pos EXCEPT !.quantity = 0, !.average_price = Null]

\* admin_settle_symbol, the loop body for one position.
SettlePosition(pos, price) ==
    LET qty == pos.quantity
        avg == pos.average_price
        pnl_add == IF qty > 0
                   THEN RatMulInt(RatSub(RatInt(price), avg), qty)
                   ELSE RatMulInt(RatSub(avg, RatInt(price)), 0 - qty)
    IN IF qty = 0 \/ avg = Null THEN pos
       ELSE [pos EXCEPT !.realized_pnl = RatAdd(pos.realized_pnl, pnl_add),
                        !.quantity = 0,
                        !.average_price = Null]

\* admin_settle_symbol, the loop over the symbol's positions.
RECURSIVE SettlePositions(_, _, _)
SettlePositions(pos, teams, price) ==
    IF teams = {} THEN <<>>
    ELSE LET t == CHOOSE u \in teams : TRUE
         IN (t :> SettlePosition(pos[t], price)) @@ SettlePositions(pos, teams \ {t}, price)

\* POST /admin/symbols/settle
admin_settle_symbol(price) ==
    /\ sym' = [trading_halted |-> TRUE, settlement_active |-> TRUE,
               settlement_price |-> RatInt(price)]
    /\ positions' = SettlePositions(positions, DOMAIN positions, price)
    /\ other_positions' = other_positions   \* where(PositionModel.symbol_id == sym.id)
    /\ nOps' = nOps + 1
    /\ last' = [op |-> "settle", price |-> price, before |-> positions,
                other_before |-> other_positions]
    /\ UNCHANGED <<notifier, eng, loaded, simple_orders, order_models, rows, tradeRows, cancelling, sym_row,
                   inflight>>

\* POST /admin/symbols/start
admin_start_symbols ==
    /\ sym' = [trading_halted |-> FALSE, settlement_active |-> FALSE,
               settlement_price |-> Null]
    /\ nOps' = nOps + 1
    /\ last' = [op |-> "start"]
    /\ UNCHANGED <<notifier, eng, loaded, simple_orders, order_models, rows, tradeRows, positions,
                   cancelling, other_positions, sym_row, inflight>>

\* The position arithmetic on its own: the two calls of
\* _apply_trade_to_position that place_and_match makes for a trade between two
\* teams, for any quantity and any price a trade can have, with settlements
\* and restarts of trading in between.
MaxPosOps == 4
TradePrices == {_price_to_float(t) : t \in 1..MaxHalf}
SettlePrices == {0} \cup TradePrices

ApplyTrade(buyer_team, seller_team, qty, price) ==
    /\ ~sym.trading_halted
    /\ positions' = ApplyTradeToPositions(positions, buyer_team, seller_team, qty, price)
    /\ nOps' = nOps + 1
    /\ last' = [op |-> "trade", buyer |-> buyer_team, seller |-> seller_team,
                quantity |-> qty, price |-> price,
                before |-> [buyer |-> PositionOf(positions, buyer_team),
                            seller |-> PositionOf(positions, seller_team)]]
    /\ UNCHANGED <<notifier, eng, loaded, simple_orders, order_models, rows, tradeRows, sym,
                   other_positions, cancelling, sym_row, inflight>>

TradeStep ==
    /\ nOps < MaxPosOps
    /\ \E buyer_team \in Teams, seller_team \in Teams, qty \in Qtys, price \in TradePrices :
           /\ buyer_team # seller_team
           /\ ApplyTrade(buyer_team, seller_team, qty, price)

Settle ==
    /\ nOps < MaxPosOps
    /\ \E price \in SettlePrices : admin_settle_symbol(price)

Start ==
    /\ nOps < MaxPosOps
    /\ sym.trading_halted
    /\ admin_start_symbols

NextPos == TradeStep \/ Settle \/ Start

SpecPos == Init /\ [][NextPos]_vars

\* Settlement with positions on two symbols: trades on the symbol, trades on
\* a second symbol (the position rows place_and_match writes for it),
\* settlements of the symbol and restarts.
MaxSettleOps == 3

OtherTrade(buyer_team, seller_team, qty, price) ==
    /\ other_positions' =
           ApplyTradeToPositions(other_positions, buyer_team, seller_team, qty, price)
    /\ nOps' = nOps + 1
    /\ last' = [op |-> "other_trade"]
    /\ UNCHANGED <<notifier, eng, loaded, simple_orders, order_models, rows, tradeRows, positions, sym,
                   cancelling, sym_row, inflight>>

TradeOnSymbol ==
    /\ nOps < MaxSettleOps
    /\ \E buyer_team \in Teams, seller_team \in Teams, qty \in Qtys, price \in TradePrices :
           /\ buyer_team # seller_team
           /\ ApplyTrade(buyer_team, seller_team, qty, price)

TradeOnOther ==
    /\ nOps < MaxSettleOps
    /\ \E buyer_team \in Teams, seller_team \in Teams, qty \in Qtys, price \in TradePrices :
           /\ buyer_team # seller_team
           /\ OtherTrade(buyer_team, seller_team, qty, price)

SettleSymbol ==
    /\ nOps < MaxSettleOps
    /\ \E price \in SettlePrices : admin_settle_symbol(price)

StartSymbol ==
    /\ nOps < MaxSettleOps
    /\ sym.trading_halted
    /\ admin_start_symbols

NextSettle == TradeOnSymbol \/ TradeOnOther \/ SettleSymbol \/ StartSymbol

SpecSettle == Init /\ [][NextSettle]_vars

\* ----------------------------------------------------- trading controls
\* POST /admin/symbols/pause
admin_pause_symbols ==
    /\ sym' = [trading_halted |-> TRUE, settlement_active |-> sym.settlement_active,
               settlement_price |-> sym.settlement_price]
    /\ nOps' = nOps + 1
    /\ last' = [op |-> "pause"]
    /\ UNCHANGED <<notifier, eng, loaded, simple_orders, order_models, rows, tradeRows, positions,
                   other_positions, sym_row, cancelling, inflight>>

\* POST /orders as the event loop runs it.  The request reads the symbol row
\* (`await session.scalar(select(SymbolModel)...)`), checks the flags of the
\* row it has read, and goes through the awaits of OrderService.place_order
\* and place_and_match; other requests run in between.
\* First half: the symbol row is read.
ReadSymbolRow ==
    /\ sym_row' = sym
    /\ UNCHANGED <<notifier, eng, loaded, simple_orders, order_models, rows, tradeRows, positions,
                   other_positions, sym, cancelling, nOps, last, inflight>>

\* Second half: the check of the row that was read, and the rest of the route.
PlaceAfterRead(team, side, order_type, quantity, price, asc) ==
    /\ ~sym_row.trading_halted /\ ~sym_row.settlement_active
    /\ PlaceAccepted(team, side, order_type, quantity, price, asc)

PlaceInFlight ==
    /\ nOps < MaxOps
    /\ \E team \in TeamChoices, side \in Sides, quantity \in Qtys,
          price \in {NoPrice} \cup LimitPrices, asc \in BOOLEAN :
           PlaceAfterRead(team, side, TypeOf(price), quantity, price, asc)

Pause ==
    /\ nOps < MaxOps
    /\ admin_pause_symbols

SettleHalt ==
    /\ nOps < MaxOps
    /\ \E price \in SettlePrices : admin_settle_symbol(price)

StartHalt ==
    /\ nOps < MaxOps
    /\ sym.trading_halted
    /\ admin_start_symbols

NextHalt == ReadSymbolRow \/ PlaceInFlight \/ Pause \/ SettleHalt \/ StartHalt

SpecHalt == Init /\ [][NextHalt]_vars

\* ------------------------------------------------ order requests interleaved
\* POST /orders as the event loop runs it when add_order returns events.
\* place_and_match runs add_order without suspending and then awaits the
\* store for each trade and cancel (session.get in _get_order_model and in
\* _apply_trade_to_position); other requests run during these awaits.
MaxInflight == 2

\* A first half whose place_order commits the row instead of flushing it.
MatchEnteredCommits(st, id, new_order, e1, row, atCommit) ==
    /\ atCommit \/ e1.trades # <<>> \/ e1.cancels # <<>>
    /\ eng' = e1
    /\ loaded' = TRUE
    /\ simple_orders' = IF e1.meta[id].price # NoPrice /\ e1.meta[id].quantity > 0
                        THEN st.simple_orders \cup {id}
                        ELSE st.simple_orders \ {id}
    /\ order_models' = st.order_models \cup {id}
    /\ rows' = Append(rows, row)
    /\ inflight' = inflight
    /\ nOps' = nOps + 1
    /\ last' = [op |-> "match", order |-> new_order, pre |-> st.eng, post |-> e1,
                trades |-> e1.trades, cancels |-> e1.cancels]
    /\ UNCHANGED <<notifier, tradeRows, positions, other_positions, sym, sym_row, cancelling>>

\* First half: the trading controls, OrderService.place_order (the row is
\* flushed, not committed), ensure_symbol_loaded and add_order.  Without
\* events the next await is the route's commit (atCommit).
MatchEntered(st, id, new_order, e1, row, atCommit) ==
    /\ atCommit \/ e1.trades # <<>> \/ e1.cancels # <<>>
    /\ eng' = e1
    /\ loaded' = TRUE
    /\ simple_orders' = IF e1.meta[id].price # NoPrice /\ e1.meta[id].quantity > 0
                        THEN st.simple_orders \cup {id}
                        ELSE st.simple_orders \ {id}
    /\ order_models' = st.order_models \cup {id}
    /\ rows' = Append(rows, row)
    /\ inflight' = Append(inflight, [id |-> id, order |-> new_order,
                                     trades |-> e1.trades, cancels |-> e1.cancels,
                                     failed |-> FALSE])
    /\ nOps' = nOps + 1
    /\ last' = [op |-> "match", order |-> new_order, pre |-> st.eng, post |-> e1,
                trades |-> e1.trades, cancels |-> e1.cancels]
    /\ UNCHANGED <<notifier, tradeRows, positions, other_positions, sym, sym_row, cancelling>>

MatchLoaded(st, id, new_order, asc, row, atCommit) ==
    /\ asc \/ Cardinality(TeamOrders(st.eng, new_order.team_id)[IF new_order.side = "buy"
                                                                THEN "sell" ELSE "buy"]) > 1
    /\ MatchEntered(st, id, new_order, add_order(st.eng, new_order, asc), row, atCommit)

MatchBegin(team, side, order_type, quantity, price, asc, atCommit) ==
    /\ ~sym.trading_halted /\ ~sym.settlement_active
    /\ Cardinality({k \in DOMAIN inflight : ~inflight[k].failed}) < MaxInflight
    /\ MatchLoaded(
           ensure_symbol_loaded(eng, loaded, simple_orders, order_models,
                                Append(rows, NewRow(team, side, order_type, quantity, price)),
                                {Len(rows) + 1}),
           Len(rows) + 1,
           SimpleOrder(Len(rows) + 1, side, quantity, price, team),
           asc,
           NewRow(team, side, order_type, quantity, price),
           atCommit)

\* The rows another request has flushed and not committed, or has rolled
\* back: session.get does not find them.
Uncommitted(k) == {inflight[j].id : j \in DOMAIN inflight \ {k}}

\* The trades whose buyer and seller rows _get_order_model finds.
FoundTrades(k) ==
    SelectSeq(inflight[k].trades,
              LAMBDA t : /\ t.buyer_order_id \notin Uncommitted(k)
                         /\ t.seller_order_id \notin Uncommitted(k))

\* The cancels whose row _get_order_model finds.
FoundCancels(k) ==
    SelectSeq(inflight[k].cancels, LAMBDA c : c.order_id \notin Uncommitted(k))

\* Second half, after _cleanup_orders: _update_new_order_status, and the
\* route's commit.
MatchCleaned(cl, rows2, ap, k) ==
    /\ eng' = cl.eng
    /\ simple_orders' = cl.simple_orders
    /\ order_models' = cl.order_models
    /\ rows' = [rows2 EXCEPT ![inflight[k].id] = _update_new_order_status(rows2[inflight[k].id])]
    /\ tradeRows' = ap.tradeRows
    /\ positions' = ap.positions
    /\ inflight' = RemoveAt(inflight, k)
    /\ last' = [op |-> "commit", id |-> inflight[k].id]
    /\ UNCHANGED <<notifier, loaded, other_positions, sym, sym_row, cancelling, nOps>>

MatchApplied(ap, rows2, k) ==
    MatchCleaned(
        _cleanup_orders(
            [eng |-> eng, simple_orders |-> simple_orders, order_models |-> order_models],
            rows2,
            SortAsc({inflight[k].id} \cup TradeIds(FoundTrades(k)) \cup Ids(FoundCancels(k)))),
        rows2, ap, k)

MatchTraded(ap, k) == MatchApplied(ap, ApplyCancels(ap.rows, FoundCancels(k)), k)

\* Second half: the loops over the trades and the cancels with the rows as
\* the store has them now, _cleanup_orders, and the commit.
MatchFinish(k) == MatchTraded(ApplyTrades(rows, tradeRows, positions, FoundTrades(k)), k)

\* A request that runs from its first line to its commit while no other is
\* in flight.
PlaceAlone ==
    /\ nOps < MaxOps
    /\ inflight = <<>>
    /\ \E team \in TeamChoices, side \in Sides, quantity \in Qtys,
          price \in {NoPrice, DeepPrice}, asc \in BOOLEAN :
           PlaceOrder(team, side, TypeOf(price), quantity, price, asc)

PlaceBegin ==
    /\ nOps < MaxOps
    /\ \E team \in TeamChoices, side \in Sides, quantity \in Qtys,
          price \in {NoPrice, DeepPrice}, asc \in BOOLEAN :
           MatchBegin(team, side, TypeOf(price), quantity, price, asc, FALSE)

PlaceEnd == \E k \in DOMAIN inflight : ~inflight[k].failed /\ MatchFinish(k)

NextSerial == PlaceAlone \/ PlaceBegin \/ PlaceEnd

SpecSerial == Init /\ [][NextSerial]_vars

\* ------------------------------------------------------- store failures
\* A store operation of the request raises at an await after add_order
\* (session.get, flush or the commit).  Neither place_and_match nor the
\* route catches it: the request ends with the exception and its session is
\* closed, which rolls the transaction back; the request's row and writes
\* never reach the store, and nothing touches the OrderBookState.
MatchFail(k) ==
    /\ ~inflight[k].failed
    /\ inflight' = [inflight EXCEPT ![k].failed = TRUE]
    /\ last' = [op |-> "fail", id |-> inflight[k].id, order |-> inflight[k].order,
                trades |-> inflight[k].trades, cancels |-> inflight[k].cancels]
    /\ UNCHANGED <<notifier, eng, loaded, simple_orders, order_models, rows, tradeRows, positions,
                   other_positions, sym, sym_row, cancelling, nOps>>

RequestBegin ==
    /\ nOps < MaxOps
    /\ \E team \in TeamChoices, side \in Sides, quantity \in Qtys,
          price \in {NoPrice, DeepPrice}, asc \in BOOLEAN :
           MatchBegin(team, side, TypeOf(price), quantity, price, asc, TRUE)

RequestEnd == \E k \in DOMAIN inflight : ~inflight[k].failed /\ MatchFinish(k)

RequestFail == \E k \in DOMAIN inflight : MatchFail(k)

NextFail == RequestBegin \/ RequestEnd \/ RequestFail

SpecFail == Init /\ [][NextFail]_vars

\* ------------------------------------------------------- loading the book
\* place_and_match on a symbol that is not loaded: ensure_symbol_loaded calls
\* load_open_orders, which awaits its query before _populate_state_from_orders
\* sets state.loaded; other requests run during that await.

\* The request up to the await of the query: the row is flushed, the query
\* sees the rows committed so far (snap without hidden).
LoadBegin ==
    /\ nOps < MaxOps
    /\ ~sym.trading_halted /\ ~sym.settlement_active
    /\ ~loaded
    /\ Cardinality({k \in DOMAIN inflight : ~inflight[k].failed}) < MaxInflight
    /\ \E team \in TeamChoices, side \in Sides, quantity \in Qtys,
          price \in {NoPrice, DeepPrice} :
           /\ rows' = Append(rows, NewRow(team, side, TypeOf(price), quantity, price))
           /\ inflight' = Append(inflight,
                  [id |-> Len(rows) + 1,
                   order |-> SimpleOrder(Len(rows) + 1, side, quantity, price, team),
                   trades |-> <<>>, cancels |-> <<>>, failed |-> FALSE,
                   snap |-> Append(rows, NewRow(team, side, TypeOf(price), quantity, price)),
                   hidden |-> {Len(rows) + 1} \cup {inflight[j].id : j \in DOMAIN inflight}])
           /\ last' = [op |-> "query", id |-> Len(rows) + 1]
    /\ nOps' = nOps + 1
    /\ UNCHANGED <<notifier, eng, loaded, simple_orders, order_models, tradeRows, positions,
                   other_positions, sym, sym_row, cancelling>>

\* After add_order: the request goes on as one in flight.
LoadAdded(st, k, e1) ==
    /\ eng' = e1
    /\ loaded' = TRUE
    /\ simple_orders' = IF e1.meta[inflight[k].id].price # NoPrice
                           /\ e1.meta[inflight[k].id].quantity > 0
                        THEN st.simple_orders \cup {inflight[k].id}
                        ELSE st.simple_orders \ {inflight[k].id}
    /\ order_models' = st.order_models \cup {inflight[k].id}
    /\ inflight' = [inflight EXCEPT ![k] = [id |-> inflight[k].id, order |-> inflight[k].order,
                                            trades |-> e1.trades, cancels |-> e1.cancels,
                                            failed |-> FALSE]]
    /\ last' = [op |-> "load", id |-> inflight[k].id, was_loaded |-> loaded]
    /\ UNCHANGED <<notifier, rows, tradeRows, positions, other_positions, sym, sym_row,
                   cancelling, nOps>>

LoadPopulated(st, k, asc) ==
    /\ asc \/ Cardinality(TeamOrders(st.eng, inflight[k].order.team_id)
                               [IF inflight[k].order.side = "buy" THEN "sell" ELSE "buy"]) > 1
    /\ LoadAdded(st, k, add_order(st.eng, inflight[k].order, asc))

\* The query returns: _populate_state_from_orders resets the engine and
\* enters the rows the query saw, then place_and_match runs add_order.
LoadEnd ==
    \E k \in DOMAIN inflight, asc \in BOOLEAN :
        /\ "snap" \in DOMAIN inflight[k]
        /\ LoadPopulated(load_open_orders(eng, inflight[k].snap, inflight[k].hidden), k, asc)

\* A request that finds the symbol loaded.
PlaceOnLoaded ==
    /\ loaded
    /\ RequestBegin

\* The rest of place_and_match and the commit.
LoadCommit ==
    \E k \in DOMAIN inflight :
        /\ "snap" \notin DOMAIN inflight[k]
        /\ MatchFinish(k)

NextLoad == LoadBegin \/ LoadEnd \/ PlaceOnLoaded \/ LoadCommit

SpecLoad == Init /\ [][NextLoad]_vars

\* ------------------------------------------------- position read and write
\* place_and_match reads each position row of a trade with session.get
\* (or inserts it with quantity 0 and flushes), computes the new quantity in
\* Python and leaves the UPDATE with that value to the commit.  Nothing locks
\* the row: a request that trades while another is between its read and its
\* commit reads the same committed row.  The insert of a row another
\* request has inserted meanwhile violates the primary key (team_id,
\* symbol_id): the flush raises and the request ends as in MatchFail.
MaxLostOps == 5

\* The teams whose position rows the trades of a request touch.
Touched(trades) ==
    UNION {{rows[trades[i].buyer_order_id].team_id, rows[trades[i].seller_order_id].team_id} :
           i \in DOMAIN trades}

\* The store's positions with the rows of the teams in ts as the request wrote them.
RECURSIVE WritePositions(_, _, _)
WritePositions(pos, written, ts) ==
    IF ts = {} THEN pos
    ELSE LET t == CHOOSE u \in ts : TRUE
         IN WritePositions(Put(pos, t, written[t]), written, ts \ {t})

\* A request with no other in flight.
RestAlone ==
    /\ nOps < MaxLostOps
    /\ inflight = <<>>
    /\ \E team \in TeamChoices, side \in Sides, quantity \in Qtys, asc \in BOOLEAN :
           PlaceOrder(team, side, "limit", quantity, DeepPrice, asc)

\* A request up to its first await after add_order.
TradeBegin ==
    /\ nOps < MaxLostOps
    /\ \E team \in TeamChoices, side \in Sides, quantity \in Qtys, asc \in BOOLEAN :
           MatchBegin(team, side, "limit", quantity, DeepPrice, asc, FALSE)

\* The trade loop: the order rows _get_order_model finds and the position
\* rows session.get returns.
ReadPositions ==
    \E k \in DOMAIN inflight :
        /\ ~inflight[k].failed
        /\ "held" \notin DOMAIN inflight[k]
        /\ inflight' = [inflight EXCEPT ![k] =
               [id |-> inflight[k].id, order |-> inflight[k].order,
                trades |-> inflight[k].trades, cancels |-> inflight[k].cancels,
                failed |-> FALSE, found |-> FoundTrades(k), held |-> positions]]
        /\ last' = [op |-> "read", id |-> inflight[k].id]
        /\ UNCHANGED <<notifier, eng, loaded, simple_orders, order_models, rows, tradeRows,
                       positions, other_positions, sym, sym_row, cancelling, nOps>>

\* The position rows of the request: the rows it read with its trades applied.
PositionsWritten(ap, k) ==
    MatchTraded([ap EXCEPT !.positions =
                     WritePositions(positions, ap.positions, Touched(inflight[k].found))], k)

\* The commit of a request whose inserts found no row in their way.
WritePositionsEnd ==
    \E k \in DOMAIN inflight :
        /\ ~inflight[k].failed
        /\ "held" \in DOMAIN inflight[k]
        /\ (Touched(inflight[k].found) \ DOMAIN inflight[k].held) \cap DOMAIN positions = {}
        /\ PositionsWritten(ApplyTrades(rows, tradeRows, inflight[k].held, inflight[k].found), k)

\* The flush of an insert whose row another request has committed.
InsertConflict ==
    \E k \in DOMAIN inflight :
        /\ "held" \in DOMAIN inflight[k]
        /\ (Touched(inflight[k].found) \ DOMAIN inflight[k].held) \cap DOMAIN positions # {}
        /\ MatchFail(k)

NextLost == RestAlone \/ TradeBegin \/ ReadPositions \/ WritePositionsEnd \/ InsertConflict

SpecLost == Init /\ [][NextLost]_vars

\* ------------------------------------------------------- position limits
MaxLimit == 3      \* largest max_position, max_order_size and requested quantity
MaxHeld == 4       \* largest absolute position quantity

\* The result of session.scalar: no row (<<>>) or the row (<<row>>).
LimitRows == {<<>>} \cup {<<[max_position |-> p, max_order_size |-> o]>> :
                              p \in 0..MaxLimit, o \in 0..MaxLimit}

HeldRows == {<<>>} \cup {<<[quantity |-> q]>> : q \in (0 - MaxHeld)..MaxHeld}

\* The tail of _apply_position_limits: the message names the two quantities
\* when they differ.
LimitResult(original_quantity, quantity) ==
    IF quantity # original_quantity
    THEN [quantity |-> quantity,
          message |-> <<[from |-> original_quantity, to |-> quantity]>>]
    ELSE [quantity |-> quantity, message |-> <<>>]

\* A capping that applies max_position only.
LimitsIgnoreOrderSize(limit, position, side, quantity) ==
    IF limit = <<>>
    THEN [quantity |-> quantity, message |-> <<>>]
    ELSE LimitResult(
             quantity,
             Min(quantity,
                 Max(0, IF side = "buy"
                        THEN limit[1].max_position
                             - (IF position # <<>> THEN position[1].quantity ELSE 0)
                        ELSE limit[1].max_position
                             + (IF position # <<>> THEN position[1].quantity ELSE 0))))

\* OrderService._apply_position_limits, given the PositionLimit row of the
\* symbol and the Position row of the team.
_apply_position_limits(limit, position, side, quantity) ==
    IF limit = <<>>
    THEN [quantity |-> quantity, message |-> <<>>]
    ELSE LimitResult(
             quantity,
             Min(Min(quantity, limit[1].max_order_size),
                 Max(0, IF side = "buy"
                        THEN limit[1].max_position
                             - (IF position # <<>> THEN position[1].quantity ELSE 0)
                        ELSE limit[1].max_position
                             + (IF position # <<>> THEN position[1].quantity ELSE 0))))

ApplyLimits ==
    /\ \E limit \in LimitRows, position \in HeldRows, side \in Sides,
          quantity \in 1..MaxLimit :
           last' = [op |-> "limits", limit |-> limit, position |-> position,
                    side |-> side, quantity |-> quantity,
                    result |-> _apply_position_limits(limit, position, side, quantity)]
    /\ UNCHANGED <<notifier, eng, loaded, simple_orders, order_models, rows, tradeRows, positions,
                   other_positions, sym, sym_row, inflight, cancelling, nOps>>

NextLimits == ApplyLimits

SpecLimits == Init /\ [][NextLimits]_vars

\* The order-entry path with a PositionLimit row for the symbol:
\* OrderService.place_order caps the quantity and creates the row with the
\* capped quantity, place_and_match hands that quantity to the engine.
CapLimits == {<<>>} \cup {<<[max_position |-> p, max_order_size |-> MaxQty]>> : p \in 0..1}

\* The Position row of the team, as session.scalar returns it.
HeldRow(team) ==
    IF team \in DOMAIN positions THEN <<[quantity |-> positions[team].quantity]>> ELSE <<>>

PlaceLimited ==
    /\ nOps < MaxOps
    /\ \E team \in TeamChoices, side \in Sides, quantity \in Qtys,
          price \in {NoPrice, DeepPrice}, asc \in BOOLEAN, limit \in CapLimits :
           PlaceOrder(team, side, TypeOf(price),
                      _apply_position_limits(limit, HeldRow(team), side, quantity).quantity,
                      price, asc)

NextCap == PlaceLimited

SpecCap == Init /\ [][NextCap]_vars

\* A symbol whose PositionLimit row exists before the first order and is
\* never changed: every request is capped under the same row.
MaxCapOps == 4
CapPosition == 1    \* max_position of the row

\* The PositionLimit row of the symbol, as session.scalar returns it.
SymbolLimit == <<[max_position |-> CapPosition, max_order_size |-> MaxQty]>>

PlaceUnderLimit ==
    /\ nOps < MaxCapOps
    /\ \E team \in TeamChoices, side \in Sides, quantity \in Qtys,
          price \in {NoPrice, DeepPrice}, asc \in BOOLEAN :
           PlaceOrder(team, side, TypeOf(price),
                      _apply_position_limits(SymbolLimit, HeldRow(team), side, quantity).quantity,
                      price, asc)

NextHeld == PlaceUnderLimit

SpecHeld == Init /\ [][NextHeld]_vars

\* ------------------------------------------------------------- notifier
BookLimit == 10

\* The rows of one side get_order_book aggregates.
BookRows(rws, side) ==
    {id \in DOMAIN rws : /\ rws[id].side = side
                         /\ rws[id].status \in {"pending", "partially_filled"}
                         /\ rws[id].price # NoPrice}

\* sum(quantity - filled_quantity) over the rows ids.
RECURSIVE RemainingOf(_, _)
RemainingOf(rws, ids) ==
    IF ids = <<>> THEN 0
    ELSE rws[Head(ids)].quantity - rws[Head(ids)].filled_quantity
             + RemainingOf(rws, Tail(ids))

\* group_by(price) in the given order of prices.
RECURSIVE GroupByPrice(_, _, _)
GroupByPrice(rws, ids, prices) ==
    IF prices = <<>> THEN <<>>
    ELSE <<[price |-> Head(prices),
            quantity |-> RemainingOf(rws, SortAsc({id \in ids : rws[id].price = Head(prices)}))]>>
             \o GroupByPrice(rws, ids, Tail(prices))

\* limit(n)
Limit(s, n) == SubSeq(s, 1, Min(Len(s), n))

\* WebSocketManager.get_order_book for the symbol: bids by price descending,
\* asks by price ascending, ten of each.
get_order_book(rws) ==
    [bids |-> Limit(GroupByPrice(rws, BookRows(rws, "buy"),
                                 Reverse(SortAsc({rws[id].price : id \in BookRows(rws, "buy")}))),
                    BookLimit),
     asks |-> Limit(GroupByPrice(rws, BookRows(rws, "sell"),
                                 SortAsc({rws[id].price : id \in BookRows(rws, "sell")})),
                    BookLimit)]

\* WebSocketManager.connections is a dict keyed by the websocket; a dict keeps
\* its entries in insertion order and a deleted entry leaves a hole, so
\* connections[w] says whether entry w is still there.  The iterator of
\* `for websocket, subscription in self.connections.items()` remembers the
\* number of entries at its start and raises RuntimeError from its next step
\* when the number has changed.  Every connection is subscribed to the symbol
\* and the channel (the endpoint calls connect and subscribe together).
MaxSubs == 3

Used(connections) == Cardinality({w \in DOMAIN connections : connections[w]})

\* The next entry after position i, 0 at the end of the dict.
NextEntry(connections, i) ==
    IF \E w \in DOMAIN connections : w > i /\ connections[w]
    THEN CHOOSE w \in DOMAIN connections :
             /\ w > i /\ connections[w]
             /\ \A v \in DOMAIN connections : (v > i /\ connections[v]) => w <= v
    ELSE 0

\* WebSocketManager.disconnect for each websocket of the list.
RECURSIVE DisconnectAll(_, _)
DisconnectAll(connections, ws) ==
    IF ws = <<>> THEN connections
    ELSE DisconnectAll([connections EXCEPT ![Head(ws)] = FALSE], Tail(ws))

\* The websocket endpoint registers a subscriber: connect and subscribe.
Connect ==
    /\ Len(notifier.connections) < MaxSubs
    /\ notifier' = [notifier EXCEPT !.connections = Append(notifier.connections, TRUE)]
    /\ UNCHANGED <<eng, loaded, simple_orders, order_models, rows, tradeRows, positions,
                   other_positions, sym, sym_row, inflight, cancelling, nOps, last>>

\* The websocket endpoint of a subscriber ends: disconnect.
Disconnect ==
    /\ \E w \in DOMAIN notifier.connections :
           /\ notifier.connections[w]
           /\ notifier' = [notifier EXCEPT !.connections[w] = FALSE]
    /\ UNCHANGED <<eng, loaded, simple_orders, order_models, rows, tradeRows, positions,
                   other_positions, sym, sym_row, inflight, cancelling, nOps, last>>

\* broadcast_to_symbol after the await of a send, or at its start (w = 0):
\* the for loop takes its next entry.
BroadcastStep(connections, used, w, started, delivered, disconnected) ==
    IF Used(connections) # used
    THEN [connections |-> connections, phase |-> "error", used |-> used, cur |-> w,
          started |-> started, delivered |-> delivered, disconnected |-> disconnected]
    ELSE IF NextEntry(connections, w) # 0
    THEN [connections |-> connections, phase |-> "sending", used |-> used,
          cur |-> NextEntry(connections, w),
          started |-> started, delivered |-> delivered, disconnected |-> disconnected]
    ELSE [connections |-> DisconnectAll(connections, disconnected), phase |-> "ok",
          used |-> used, cur |-> 0,
          started |-> started, delivered |-> delivered, disconnected |-> disconnected]

\* The order route, after its commit, notifies a trade: notify_trade calls
\* broadcast_to_symbol, which runs up to the await of its first send.
BroadcastBegin ==
    /\ notifier.phase # "sending"
    /\ notifier' = BroadcastStep(notifier.connections, Used(notifier.connections), 0,
                                 {w \in DOMAIN notifier.connections : notifier.connections[w]},
                                 {}, <<>>)
    /\ UNCHANGED <<eng, loaded, simple_orders, order_models, rows, tradeRows, positions,
                   other_positions, sym, sym_row, inflight, cancelling, nOps, last>>

\* The awaited send_json returns or raises; the loop goes on to its next
\* await, ends, or raises.
SendEnd ==
    /\ notifier.phase = "sending"
    /\ \E sent \in BOOLEAN :
           notifier' = BroadcastStep(
               notifier.connections, notifier.used, notifier.cur, notifier.started,
               IF sent THEN notifier.delivered \cup {notifier.cur} ELSE notifier.delivered,
               IF sent THEN notifier.disconnected
               ELSE Append(notifier.disconnected, notifier.cur))
    /\ UNCHANGED <<eng, loaded, simple_orders, order_models, rows, tradeRows, positions,
                   other_positions, sym, sym_row, inflight, cancelling, nOps, last>>

NextNotify == Connect \/ Disconnect \/ BroadcastBegin \/ SendEnd

SpecNotify == Init /\ [][NextNotify]_vars

\* ============================================================== properties
\* Sum of the quantities of a sequence of events (trades or cancels).
RECURSIVE SumQty(_)
SumQty(evs) == IF evs = <<>> THEN 0 ELSE Head(evs).quantity + SumQty(Tail(evs))

TeamOf(id) == rows[id].team_id

Placed == last.op = "place"

\* C1: every trade returned by add_order, and every Trade row written by
\* place_and_match, names a buyer order and a seller order of different teams.
C1_TradesCrossTeams ==
    /\ Placed => \A i \in 1..Len(last.trades) :
                    TeamOf(last.trades[i].buyer_order_id) # TeamOf(last.trades[i].seller_order_id)
    /\ \A i \in 1..Len(tradeRows) :
          TeamOf(tradeRows[i].buyer_order_id) # TeamOf(tradeRows[i].seller_order_id)

\* An order that met both its own team's resting order and another team's.
C1_Witness == Placed /\ last.trades # <<>> /\ last.cancels # <<>>

\* C2: after add_order returns, whenever get_orderbook_levels reports a best
\* bid and a best ask, the best bid price is below the best ask price.
C2_NotCrossed ==
    Placed =>
        LET lv == get_orderbook_levels(last.post)
        IN (lv.bids # <<>> /\ lv.asks # <<>>) => lv.bids[1].price < lv.asks[1].price

\* The order's own team had a crossing order, and both sides are reported.
C2_Witness ==
    /\ Placed
    /\ last.cancels # <<>>
    /\ get_orderbook_levels(last.post).bids # <<>>
    /\ get_orderbook_levels(last.post).asks # <<>>

\* The orders with an entry on one side of the book of engine e.
OnBook(e, sk) ==
    {e.byLid[e.book[sk][k].lid] : k \in {j \in 1..Len(e.book[sk]) : e.book[sk][j].lid \in DOMAIN e.byLid}}

\* The resting order of a trade of the last add_order.
RestingOf(t) ==
    IF t.buyer_order_id = last.order.order_id THEN t.seller_order_id ELSE t.buyer_order_id

OppositeBook == IF last.order.side = "buy" THEN "asks" ELSE "bids"

\* C3: time priority.  When a resting entry receives a fill, no entry that was
\* inserted earlier at the same price on the same side, and that the incoming
\* order may trade with, is still on the book afterwards; an earlier entry that
\* self-trade prevention partly reduced in between keeps its place.
C3_TimePriority ==
    Placed =>
        \A i \in 1..Len(last.trades) :
            LET r == RestingOf(last.trades[i])
            IN \A o \in OnBook(last.pre, OppositeBook) :
                   (/\ r \in last.pre.byId
                    /\ o < r
                    /\ last.pre.meta[o].price_int = last.pre.meta[r].price_int
                    /\ TeamOf(o) # last.order.team_id)
                   => o \notin OnBook(last.post, OppositeBook)

\* The entries of one side of the book of engine e, best first, as the trades
\* that consume them entirely.
BookAsTrades(e, sk) ==
    [k \in 1..Len(e.book[sk]) |->
        LET o == e.byLid[e.book[sk][k].lid]
        IN [buyer_order_id |-> IF sk = "bids" THEN o ELSE last.order.order_id,
            seller_order_id |-> IF sk = "asks" THEN o ELSE last.order.order_id,
            quantity |-> e.book[sk][k].open,
            price |-> _price_to_float(e.lord[e.book[sk][k].lid].price)]]

RECURSIVE SumOpen(_)
SumOpen(s) == IF s = <<>> THEN 0 ELSE Head(s).open + SumOpen(Tail(s))

\* A price is strictly better for the incoming order than the price of a trade.
Better(side, price, tradePrice) ==
    IF side = "buy" THEN price < tradePrice ELSE price > tradePrice

\* The trade prices of one add_order never improve for the incoming order
\* along the sequence: non-decreasing for a buy, non-increasing for a sell.
TradesInMatchingOrder ==
    \A i \in 1..Len(last.trades), j \in 1..Len(last.trades) :
        i < j => ~Better(last.order.side, last.trades[j].price, last.trades[i].price)

\* No trade is made while another team's entry at a strictly better price
\* stays on the book.
NoBetterEntryLeft ==
    \A i \in 1..Len(last.trades) :
        \A o \in OnBook(last.pre, OppositeBook) \cap OnBook(last.post, OppositeBook) :
            TeamOf(o) # last.order.team_id
            => ~Better(last.order.side, _price_to_float(last.pre.meta[o].price_int),
                       last.trades[i].price)

\* A market order that faces only other teams' entries and asks for at least
\* their total takes them all, best first, each at its price.
MarketSweep ==
    (/\ last.order.price = NoPrice
     /\ \A k \in 1..Len(last.pre.book[OppositeBook]) :
            /\ last.pre.book[OppositeBook][k].lid \in DOMAIN last.pre.byLid
            /\ TeamOf(last.pre.byLid[last.pre.book[OppositeBook][k].lid]) # last.order.team_id
     /\ last.order.quantity >= SumOpen(last.pre.book[OppositeBook]))
    => /\ last.trades = BookAsTrades(last.pre, OppositeBook)
       /\ last.post.book[OppositeBook] = <<>>

\* C4: the trades of one add_order are in matching order (for a buy the prices
\* are non-decreasing, for a sell non-increasing), none is made while another
\* team's entry at a strictly better price is still available, and a market
\* order larger than the other teams' resting total takes every entry, best
\* first, and leaves the side empty.
C4_PricePriority ==
    Placed => (TradesInMatchingOrder /\ NoBetterEntryLeft /\ MarketSweep)

\* A market order swept two entries at different prices.
C4_Witness ==
    /\ Placed
    /\ last.order.price = NoPrice
    /\ Len(last.trades) = 2
    /\ last.trades[1].price # last.trades[2].price
    /\ last.post.book[OppositeBook] = <<>>

\* Every trade of the last add_order is at the price of its resting entry.
TradeAtRestingPrice ==
    \A i \in 1..Len(last.trades) :
        /\ RestingOf(last.trades[i]) \in last.pre.byId
        /\ last.trades[i].price
              = _price_to_float(last.pre.meta[RestingOf(last.trades[i])].price_int)

\* A book holding one order, a buy, and a smaller sell limit of another team
\* at a price that crosses it.
OneBidThenSmallerSell(b) ==
    /\ last.pre.book.asks = <<>>
    /\ Len(last.pre.book.bids) = 1
    /\ OnBook(last.pre, "bids") = {b}
    /\ rows[b].quantity = last.pre.book.bids[1].open
    /\ last.order.side = "sell"
    /\ last.order.price # NoPrice
    /\ TeamOf(b) # last.order.team_id
    /\ last.order.quantity < rows[b].quantity
    /\ _price_to_int(last.order.price) <= _price_to_int(rows[b].price)

\* C5: every trade executes at the resting entry's price, never at the
\* incoming order's; a smaller sell limit meeting the only resting buy gives one
\* trade for its whole quantity at the buy's price, leaves the buy row partial
\* and the sell row filled, and the book shows the rest of the bid and no asks.
C5_RestingPrice ==
    Placed =>
        /\ TradeAtRestingPrice
        /\ \A b \in DOMAIN rows :
              OneBidThenSmallerSell(b) =>
                  /\ last.trades = <<[buyer_order_id |-> b,
                                      seller_order_id |-> last.order.order_id,
                                      quantity |-> last.order.quantity,
                                      price |-> _price_to_float(_price_to_int(rows[b].price))]>>
                  /\ rows[b].status = "partial"
                  /\ rows[b].filled_quantity = last.order.quantity
                  /\ rows[last.order.order_id].status = "filled"
                  /\ get_orderbook_levels(eng)
                        = [bids |-> <<[price |-> _price_to_float(_price_to_int(rows[b].price)),
                                       quantity |-> rows[b].quantity - last.order.quantity]>>,
                           asks |-> <<>>]

\* A sell limit priced below the resting buy traded with it.
C5_Witness ==
    /\ Placed
    /\ \E b \in DOMAIN rows :
          /\ OneBidThenSmallerSell(b)
          /\ _price_to_int(last.order.price) < _price_to_int(rows[b].price)
    /\ last.trades # <<>>

\* The first two operations were limit orders on opposite sides.
TwoLimitOrders ==
    /\ nOps = 2
    /\ Len(rows) = 2
    /\ rows[1].price # NoPrice
    /\ rows[2].price # NoPrice
    /\ rows[1].side # rows[2].side

\* The second order's tick crosses the first's.
TwoCross ==
    IF rows[2].side = "buy" THEN _price_to_int(rows[2].price) >= _price_to_int(rows[1].price)
    ELSE _price_to_int(rows[2].price) <= _price_to_int(rows[1].price)

\* C6: for two limit orders on an empty engine, the second on the opposite
\* side: the traded total is min(q1, q2) when they cross and the teams differ,
\* and 0 when the teams are the same or the prices do not cross.
C6_FillConservation ==
    TwoLimitOrders =>
        SumQty(tradeRows) = IF TwoCross /\ TeamOf(1) # TeamOf(2)
                            THEN Min(rows[1].quantity, rows[2].quantity)
                            ELSE 0

\* Two crossing limit orders of different teams and different sizes.
C6_Witness ==
    /\ TwoLimitOrders
    /\ TwoCross
    /\ TeamOf(1) # TeamOf(2)
    /\ rows[1].quantity # rows[2].quantity
    /\ tradeRows # <<>>

\* The open quantity of the incoming team's entries on the opposite side of
\* the book of engine e whose price crosses the incoming price.
RECURSIVE CrossingSelfOpen(_, _)
CrossingSelfOpen(e, trackers) ==
    IF trackers = <<>> THEN 0
    ELSE LET tr == Head(trackers)
             mine == /\ tr.lid \in DOMAIN e.byLid
                     /\ TeamOf(e.byLid[tr.lid]) = last.order.team_id
                     /\ _prices_cross(last.order.side, _price_to_int(last.order.price),
                                      e.lord[tr.lid].price)
         IN (IF mine THEN tr.open ELSE 0) + CrossingSelfOpen(e, Tail(trackers))

SelfOpen == CrossingSelfOpen(last.pre, last.pre.book[OppositeBook])

\* C7: the cancel quantities returned by one add_order sum to the smaller of
\* the incoming quantity and the open quantity of the team's own crossing
\* entries on the opposite side, and every cancel names an order of that team.
C7_SelfConsumption ==
    Placed =>
        /\ SumQty(last.cancels) = Min(last.order.quantity, SelfOpen)
        /\ \A i \in 1..Len(last.cancels) :
               TeamOf(last.cancels[i].order_id) = last.order.team_id

\* The quantity an order has on one side of the book of engine e.
RECURSIVE OpenOnBook(_, _, _)
OpenOnBook(e, trackers, id) ==
    IF trackers = <<>> THEN 0
    ELSE (IF Head(trackers).lid \in DOMAIN e.byLid /\ e.byLid[Head(trackers).lid] = id
          THEN Head(trackers).open ELSE 0) + OpenOnBook(e, Tail(trackers), id)

IncomingBook == IF last.order.side = "buy" THEN "bids" ELSE "asks"

\* C8: for an incoming limit order, the quantity it traded plus the quantity
\* it has resting in the book after add_order is its original quantity.
C8_LimitConservation ==
    (Placed /\ last.order.price # NoPrice) =>
        SumQty(last.trades)
            + OpenOnBook(last.post, last.post.book[IncomingBook], last.order.order_id)
          = last.order.quantity

\* The opposite side holds only entries of the incoming team.
OnlySelfLiquidity ==
    /\ last.pre.book[OppositeBook] # <<>>
    /\ \A k \in 1..Len(last.pre.book[OppositeBook]) :
          /\ last.pre.book[OppositeBook][k].lid \in DOMAIN last.pre.byLid
          /\ TeamOf(last.pre.byLid[last.pre.book[OppositeBook][k].lid]) = last.order.team_id

\* C9: for an incoming market order, the trades are at most the original
\* quantity less the cancels; against own entries only there are cancels and no
\* trade; and a single larger own entry stays in the book with what is left.
C9_MarketSelf ==
    (Placed /\ last.order.price = NoPrice) =>
        /\ SumQty(last.trades) <= last.order.quantity - SumQty(last.cancels)
        /\ OnlySelfLiquidity =>
              /\ last.trades = <<>>
              /\ SumQty(last.cancels) = Min(last.order.quantity, SelfOpen)
        /\ (/\ OnlySelfLiquidity
            /\ Len(last.pre.book[OppositeBook]) = 1
            /\ last.pre.book[OppositeBook][1].open > last.order.quantity)
           => LET o == last.pre.byLid[last.pre.book[OppositeBook][1].lid]
                  left == last.pre.book[OppositeBook][1].open - last.order.quantity
              IN /\ last.cancels = <<[order_id |-> o, quantity |-> last.order.quantity]>>
                 /\ OpenOnBook(last.post, last.post.book[OppositeBook], o) = left
                 /\ Len(last.post.book[OppositeBook]) = 1
                 /\ last.post.book[IncomingBook] = last.pre.book[IncomingBook]

\* A market order met a larger entry of its own team.
C9_Witness ==
    /\ Placed
    /\ last.order.price = NoPrice
    /\ OnlySelfLiquidity
    /\ Len(last.pre.book[OppositeBook]) = 1
    /\ last.pre.book[OppositeBook][1].open > last.order.quantity
    /\ last.cancels # <<>>

\* The entries of both sides of the book of engine e.
Trackers(e) == e.book.bids \o e.book.asks

\* C10: after add_order no level reported by get_orderbook_levels has a price
\* of 0 or less, and no entry is left resting in the book at tick 0.
C10_NoMarketResident ==
    Placed =>
        /\ \A i \in 1..Len(get_orderbook_levels(last.post).bids) :
               get_orderbook_levels(last.post).bids[i].price > 0
        /\ \A i \in 1..Len(get_orderbook_levels(last.post).asks) :
               get_orderbook_levels(last.post).asks[i].price > 0
        /\ \A k \in 1..Len(Trackers(last.post)) :
               last.post.lord[Trackers(last.post)[k].lid].price > 0

\* The orders with an entry on either side of the book of engine e.
Resting(e) == OnBook(e, "bids") \cup OnBook(e, "asks")

\* C11: a market order, whatever its price field holds, is not resting in the
\* engine after place_and_match and its row is filled (filled_quantity =
\* quantity) or cancelled; every order resting in the book has a row of type
\* limit with filled_quantity < quantity.
C11_MarketNeverRests ==
    /\ (Placed /\ rows[last.order.order_id].order_type = "market") =>
           /\ last.order.order_id \notin Resting(eng)
           /\ \/ /\ rows[last.order.order_id].status = "filled"
                 /\ rows[last.order.order_id].filled_quantity
                        = rows[last.order.order_id].quantity
              \/ rows[last.order.order_id].status = "cancelled"
    /\ loaded => \A o \in Resting(eng) :
                     /\ rows[o].order_type = "limit"
                     /\ rows[o].filled_quantity < rows[o].quantity

\* The book a fresh ExchangeManager loads from the order rows.
Rebuilt == load_open_orders(eng, rows, {}).eng

\* C12: rebuild fidelity.  After any committed sequence of place_and_match and
\* cancel operations, a fresh manager that loads the symbol from the order
\* rows has the same aggregated depth as the live engine and the same set of
\* resting order ids.
C12_RebuildFidelity ==
    (loaded /\ last.op \in {"place", "cancel"}) =>
        /\ get_orderbook_levels(Rebuilt) = get_orderbook_levels(eng)
        /\ Resting(Rebuilt) = Resting(eng)

\* The rows load_open_orders is to put on the book: open, of type limit with
\* a price, and with something remaining.
OpenLimitRows(rws) ==
    {id \in DOMAIN rws : /\ rws[id].status \in OpenStatus
                         /\ rws[id].order_type = "limit"
                         /\ rws[id].price # NoPrice
                         /\ rws[id].quantity - rws[id].filled_quantity > 0}

\* The open quantities of the book entries of order id in engine e.
EntriesOf(e, id) ==
    [sk \in {"bids", "asks"} |->
        SelectSeq(e.book[sk], LAMBDA en : en.lid \in DOMAIN e.byLid /\ e.byLid[en.lid] = id)]

\* What a book shows: its levels, and per side the orders in priority order
\* with their open quantities.
BookView(e) ==
    [levels |-> get_orderbook_levels(e),
     bids |-> [k \in 1..Len(e.book.bids) |->
                  <<e.byLid[e.book.bids[k].lid], e.book.bids[k].open>>],
     asks |-> [k \in 1..Len(e.book.asks) |->
                  <<e.byLid[e.book.asks[k].lid], e.book.asks[k].open>>]]

\* C13: load_open_orders replaces rather than adds.  Whatever the engine held
\* before, afterwards it holds exactly the store's pending/partial limit
\* orders with remaining = quantity - filled_quantity > 0, each once and with
\* that remaining quantity; loading twice gives the same book as loading
\* once; an order that is no longer open in the store is unknown to the
\* reloaded engine and so cannot be traded.
C13_LoadReplaces ==
    /\ Resting(Rebuilt) = OpenLimitRows(rows)
    /\ \A id \in OpenLimitRows(rows) :
           LET side == IF rows[id].side = "buy" THEN "bids" ELSE "asks"
               other == IF rows[id].side = "buy" THEN "asks" ELSE "bids"
           IN /\ Len(EntriesOf(Rebuilt, id)[side]) = 1
              /\ EntriesOf(Rebuilt, id)[side][1].open
                     = rows[id].quantity - rows[id].filled_quantity
              /\ EntriesOf(Rebuilt, id)[other] = <<>>
    /\ BookView(load_open_orders(Rebuilt, rows, {}).eng) = BookView(Rebuilt)
    /\ Rebuilt.byId = OpenLimitRows(rows)

\* C14: for every order row, in every reachable state after any sequence of
\* place_and_match (with trades and self-trade cancels) and cancel
\* operations, 0 <= filled_quantity <= quantity.
C14_FilledWithinQuantity ==
    \A id \in DOMAIN rows :
        /\ 0 <= rows[id].filled_quantity
        /\ rows[id].filled_quantity <= rows[id].quantity

\* C15: for every order row in every reachable state, status = filled if and
\* only if filled_quantity = quantity; an order whose whole remaining
\* quantity was removed by self-trade prevention obeys the same equivalence.
C15_FilledIffComplete ==
    \A id \in DOMAIN rows :
        (rows[id].status = "filled") <=> (rows[id].filled_quantity = rows[id].quantity)

Terminal == {"filled", "cancelled"}

\* The steps the order lifecycle allows: pending -> partial -> {filled, cancelled}.
StatusRank(status) ==
    IF status = "pending" THEN 0 ELSE IF status = "partial" THEN 1 ELSE 2

LifecycleStep(old, new) ==
    /\ new.filled_quantity >= old.filled_quantity
    /\ StatusRank(new.status) >= StatusRank(old.status)
    /\ old.status \in Terminal =>
           /\ new.status = old.status
           /\ new.filled_quantity = old.filled_quantity

\* C16: the order lifecycle is monotone.  In every step filled_quantity of
\* every row does not decrease, status only moves along pending -> partial ->
\* {filled, cancelled}, and a row whose status is filled or cancelled keeps
\* its status and filled_quantity whatever operation comes later
\* (place_and_match of another order, cancel_order, reload).
C16_LifecycleMonotone ==
    [][\A id \in DOMAIN rows : LifecycleStep(rows[id], rows'[id])]_vars

\* C17: idempotent cancellation.  cancel_order on an order whose status is
\* already filled or cancelled changes neither the row nor the book and does
\* not answer with a successful cancellation; cancel_order on an id that does
\* not exist answers order-not-found (404).
C17_IdempotentCancel ==
    [][(last'.op = "cancel" /\ nOps' = nOps + 1) =>
           IF last'.id \notin DOMAIN rows
           THEN /\ last'.status_code = 404
                /\ rows' = rows
                /\ eng' = eng
           ELSE rows[last'.id].status \in Terminal =>
                    /\ rows' = rows
                    /\ BookView(eng') = BookView(eng)
                    /\ last'.status_code # 200]_vars

\* The rows only cancel_order can have produced: a limit order that is
\* cancelled with quantity left (place_and_match sets cancelled on a limit
\* row only when filled_quantity >= quantity).
CancelledByRequest(rws) ==
    {id \in DOMAIN rws : /\ rws[id].status = "cancelled"
                         /\ rws[id].order_type = "limit"
                         /\ rws[id].filled_quantity < rws[id].quantity}

\* C18: once cancel_order has set an order's status to cancelled, no trade
\* created afterwards names the order as buyer or seller, also when a
\* place_and_match runs between the cancel's commit and its call to
\* remove_from_book; and when the cancel request has returned the order is in
\* no engine book.
C18_CancelledNeverTrades ==
    [][/\ \A i \in (Len(tradeRows) + 1)..Len(tradeRows') :
              /\ tradeRows'[i].buyer_order_id \notin CancelledByRequest(rows)
              /\ tradeRows'[i].seller_order_id \notin CancelledByRequest(rows)
       /\ \A id \in CancelledByRequest(rows') \ cancelling' :
              loaded' => id \notin Resting(eng')]_vars

\* C19: position law.  For every position, after any sequence of trade
\* applications (buys and sells, with covers, reductions and reversals) and
\* settlements, average_price is null if and only if quantity = 0.
C19_PositionLaw ==
    \A t \in DOMAIN positions :
        (positions[t].average_price = Null) <=> (positions[t].quantity = 0)

\* A position that was short, had been partly covered at a gain or a loss,
\* and has now been settled.
C19_Witness ==
    /\ last.op = "settle"
    /\ \E t \in DOMAIN last.before :
           /\ last.before[t].quantity < 0
           /\ last.before[t].realized_pnl # RatInt(0)
           /\ positions[t].quantity = 0
           /\ positions[t].average_price = Null

\* What C20 says a trade of q at p does to a position that is on the other
\* side: open is the size of the position (> 0) and sign is 1 for a long
\* position met by a sell, -1 for a short position met by a buy.
ReducedOrReversed(old, new, sign, q, p) ==
    LET open == sign * old.quantity
        closed == Min(q, open)
        gain == IF sign = 1 THEN RatSub(RatInt(p), old.average_price)
                ELSE RatSub(old.average_price, RatInt(p))
    IN /\ new.realized_pnl = RatAdd(old.realized_pnl, RatMulInt(gain, closed))
       /\ q < open => /\ new.quantity = sign * (open - q)
                      /\ new.average_price = old.average_price
       /\ q = open => /\ new.quantity = 0
                      /\ new.average_price = Null
       /\ q > open => /\ new.quantity = (0 - sign) * (q - open)
                      /\ new.average_price = RatInt(p)

\* C20: reducing and reversing a position.  A buy of q at p against a short
\* position with average a realizes (a - p) * min(q, -qty), leaves the average
\* unchanged while the position stays short, sets it to null when the
\* position becomes flat, and opens a long of q - (-qty) at average p when
\* q > -qty; a sell against a long position is the mirror with
\* (p - a) * min(q, qty).  The two examples: short 50 at 100, buy 80 at 95
\* gives long 30 at 95 with 250 realized; long 100 at 100, sell 40 at 110
\* gives long 60 at 100 with 400 realized.
C20_ReduceAndReverse ==
    /\ last.op = "trade" =>
           /\ last.before.buyer.quantity < 0 =>
                  ReducedOrReversed(last.before.buyer, positions[last.buyer],
                                    0 - 1, last.quantity, last.price)
           /\ last.before.seller.quantity > 0 =>
                  ReducedOrReversed(last.before.seller, positions[last.seller],
                                    1, last.quantity, last.price)
    /\ _apply_trade_to_position(
           [quantity |-> 0 - 50, average_price |-> RatInt(100), realized_pnl |-> RatInt(0)],
           "buy", 80, 95)
         = [quantity |-> 30, average_price |-> RatInt(95), realized_pnl |-> RatInt(250)]
    /\ _apply_trade_to_position(
           _apply_trade_to_position(NewPosition, "buy", 100, 100), "sell", 40, 110)
         = [quantity |-> 60, average_price |-> RatInt(100), realized_pnl |-> RatInt(400)]

\* A trade in which the buyer was short and ends long, with a gain or a loss
\* realized, and the seller was long and stays long.
C20_Witness ==
    /\ last.op = "trade"
    /\ last.before.buyer.quantity < 0
    /\ positions[last.buyer].quantity > 0
    /\ positions[last.buyer].realized_pnl # last.before.buyer.realized_pnl
    /\ last.before.seller.quantity > last.quantity

\* What C21 says a settlement at price makes of a position.
Settled(old, price) ==
    IF old.quantity = 0 THEN old
    ELSE [quantity |-> 0,
          average_price |-> Null,
          realized_pnl |->
              RatAdd(old.realized_pnl,
                     IF old.quantity > 0
                     THEN RatMulInt(RatSub(RatInt(price), old.average_price), old.quantity)
                     ELSE RatMulInt(RatSub(old.average_price, RatInt(price)),
                                    0 - old.quantity))]

\* C21: settlement of the symbol at price P.  Every position on the symbol
\* with quantity # 0 gets realized_pnl increased by (P - avg) * qty if long
\* and by (avg - P) * (-qty) if short, then quantity 0 and average_price
\* null; positions on another symbol are unchanged; the symbol ends with
\* trading_halted and settlement_active both true.
C21_Settlement ==
    last.op = "settle" =>
        /\ DOMAIN positions = DOMAIN last.before
        /\ \A t \in DOMAIN last.before : positions[t] = Settled(last.before[t], last.price)
        /\ other_positions = last.other_before
        /\ sym.trading_halted
        /\ sym.settlement_active

\* A settlement at a price that differs from the averages, with a long and a
\* short position on the symbol and an open position on the other symbol.
C21_Witness ==
    /\ last.op = "settle"
    /\ \E t \in DOMAIN last.before :
           /\ last.before[t].quantity > 0
           /\ positions[t].realized_pnl # last.before[t].realized_pnl
    /\ \E t \in DOMAIN last.before :
           /\ last.before[t].quantity < 0
           /\ positions[t].realized_pnl # last.before[t].realized_pnl
    /\ \E t \in DOMAIN other_positions : other_positions[t].quantity # 0

Halted == sym.trading_halted \/ sym.settlement_active

C23_Serialized == Len(inflight) <= 1

\* C24: if a store operation fails during place_and_match after the engine
\* step has run, the symbol's in-memory engine state is discarded and the
\* symbol is marked unloaded, and the book never keeps a resting order whose
\* transaction was rolled back.
DuringMatch(r) == r.trades # <<>> \/ r.cancels # <<>>

C24_FailureDiscardsEngine ==
    /\ (last.op = "fail" /\ DuringMatch(last)) => ~loaded
    /\ loaded => \A k \in DOMAIN inflight :
                     (inflight[k].failed /\ DuringMatch(inflight[k]))
                         => inflight[k].id \notin Resting(eng)

\* The rows the store holds committed: every row but those a request in
\* flight has flushed, or a failed request had flushed.
CommittedIds == DOMAIN rows \ {inflight[k].id : k \in DOMAIN inflight}

CommittedRows == {<<i, rows[i]>> : i \in CommittedIds}

\* C25: OrderService.place_order and place_and_match do not commit: after
\* place_order and the engine step the committed rows, trades and positions
\* are the ones before the request and the new row is pending with
\* filled_quantity 0; the request's row is committed once, by the route,
\* after place_and_match has returned.
C25_CallerCommits ==
    [][/\ last'.op = "match" =>
             /\ CommittedRows' = CommittedRows
             /\ tradeRows' = tradeRows
             /\ positions' = positions
             /\ rows'[Len(rows')].status = "pending"
             /\ rows'[Len(rows')].filled_quantity = 0
       /\ last'.op = "commit" =>
             /\ last'.id \notin CommittedIds
             /\ last'.id \in CommittedIds'
             /\ CommittedIds' = CommittedIds \cup {last'.id}
       /\ last'.op = "fail" => CommittedRows' = CommittedRows]_vars

C25_Witness ==
    /\ last.op = "commit"
    /\ tradeRows # <<>>
    /\ \E k \in DOMAIN inflight : ~inflight[k].failed

\* The quantity the position limit allows a team holding q to add on a side.
Allowed(limit, q, side) ==
    IF side = "buy" THEN limit.max_position - q ELSE limit.max_position + q

Held(position) == IF position = <<>> THEN 0 ELSE position[1].quantity

\* C26: without a limit row _apply_position_limits returns the requested
\* quantity and no message; with one it returns
\* min(quantity, max_order_size, max(0, allowed)), allowed being
\* max_position - current for a buy and max_position + current for a sell,
\* and a "capped from X to Y" message exactly when the quantity changed.
C26_PositionLimitCap ==
    last.op = "limits" =>
        /\ last.limit = <<>> =>
               /\ last.result.quantity = last.quantity
               /\ last.result.message = <<>>
        /\ last.limit # <<>> =>
               /\ \E m \in {last.quantity, last.limit[1].max_order_size,
                            Max(0, Allowed(last.limit[1], Held(last.position), last.side))} :
                      /\ last.result.quantity = m
                      /\ m <= last.quantity
                      /\ m <= last.limit[1].max_order_size
                      /\ m <= Max(0, Allowed(last.limit[1], Held(last.position), last.side))
               /\ (last.result.message # <<>>) <=> (last.result.quantity # last.quantity)
               /\ last.result.message # <<>> =>
                      last.result.message = <<[from |-> last.quantity,
                                               to |-> last.result.quantity]>>

\* A request capped first by max_order_size and then by max_position.
C26_Witness ==
    /\ last.op = "limits"
    /\ last.limit # <<>>
    /\ last.position # <<>>
    /\ last.limit[1].max_order_size < last.quantity
    /\ last.result.quantity < last.limit[1].max_order_size
    /\ last.result.quantity > 0
    /\ last.result.message # <<>>

\* One side of the book as (order id, price, open quantity) in priority order.
SideView(e, sk) ==
    [k \in 1..Len(e.book[sk]) |->
        <<IF e.book[sk][k].lid \in DOMAIN e.byLid THEN e.byLid[e.book[sk][k].lid] ELSE 0,
          e.lord[e.book[sk][k].lid].price, e.book[sk][k].open>>]

\* Sequence s with its element at position k removed.
Without(s, k) == SubSeq(s, 1, k - 1) \o SubSeq(s, k + 1, Len(s))

\* e2 is e with order resting behind the entries of its price and nothing
\* else changed, and entering it produced no event.
RestsOnly(e, order, e2, sk, other) ==
    /\ e2.trades = <<>>
    /\ e2.cancels = <<>>
    /\ SideView(e2, other) = SideView(e, other)
    /\ \E k \in 1..Len(e2.book[sk]) :
           /\ SideView(e2, sk)[k][1] = order.order_id
           /\ SideView(e2, sk)[k][3] = order.quantity
           /\ Without(SideView(e2, sk), k) = SideView(e, sk)
           /\ \A j \in 1..Len(e2.book[sk]) :
                  SideView(e2, sk)[j][2] = SideView(e2, sk)[k][2] => j <= k

\* Every add_resting_order of _populate_state_from_orders over the rows ids,
\* starting from engine e, rests its order and does nothing else.
RECURSIVE PopulateRests(_, _, _)
PopulateRests(e, rws, ids) ==
    IF ids = <<>> THEN TRUE
    ELSE IF \/ rws[Head(ids)].quantity - rws[Head(ids)].filled_quantity <= 0
            \/ rws[Head(ids)].order_type = "market"
            \/ rws[Head(ids)].price = NoPrice
         THEN PopulateRests(e, rws, Tail(ids))
         ELSE /\ RestsOnly(e,
                           _simple_from_model(rws, Head(ids),
                               rws[Head(ids)].quantity - rws[Head(ids)].filled_quantity),
                           _enter_order(e, _simple_from_model(rws, Head(ids),
                               rws[Head(ids)].quantity - rws[Head(ids)].filled_quantity)),
                           IF rws[Head(ids)].side = "buy" THEN "bids" ELSE "asks",
                           IF rws[Head(ids)].side = "buy" THEN "asks" ELSE "bids")
              /\ PopulateRests(
                     add_resting_order(e, _simple_from_model(rws, Head(ids),
                         rws[Head(ids)].quantity - rws[Head(ids)].filled_quantity)),
                     rws, Tail(ids))

\* C27: every add_resting_order of a rebuild from the order rows inserts its
\* open limit order at the tail of its price level without matching: no
\* trade, no cancel, and no other resting entry changed or removed.
C27_RestingOnly ==
    PopulateRests(EmptyEngine(eng.nextLid), rows,
                  SortAsc({id \in DOMAIN rows : rows[id].status \in OpenStatus}))

\* The quantity the levels of one side show in all.
RECURSIVE LevelSum(_)
LevelSum(levels) ==
    IF levels = <<>> THEN 0 ELSE Head(levels).quantity + LevelSum(Tail(levels))

\* The open quantity of a sequence of (id, price, open) entries.
RECURSIVE SumViewed(_)
SumViewed(ens) == IF ens = <<>> THEN 0 ELSE Head(ens)[3] + SumViewed(Tail(ens))

\* The liquibook ids the team index holds.
TeamIndexed(e) ==
    UNION {e.team[t].buy \cup e.team[t].sell : t \in DOMAIN e.team}

\* The entries of one side that do not belong to order id.
OthersOn(e, sk, id) == SelectSeq(SideView(e, sk), LAMBDA en : en[1] # id)

\* r is what remove_order(e, id) returned.
RemoveOk(e, id, r) ==
    /\ r.found <=> id \in Resting(e)
    /\ r.found =>
           /\ id \notin Resting(r.e)
           /\ id \notin r.e.byId
           /\ e.meta[id].liquibook_id \notin DOMAIN r.e.byLid
           /\ e.meta[id].liquibook_id \notin TeamIndexed(r.e)
           /\ ~remove_order(r.e, id).found
           /\ \A sk \in {"bids", "asks"} :
                  /\ SideView(r.e, sk) = OthersOn(e, sk, id)
                  /\ LevelSum(get_orderbook_levels(r.e)[sk])
                         = LevelSum(get_orderbook_levels(e)[sk])
                           - SumViewed(SelectSeq(SideView(e, sk), LAMBDA en : en[1] = id))
    /\ ~r.found => BookView(r.e) = BookView(e)

\* C28: remove_order(order_id) returns true exactly when the order is
\* resting in the engine; after a true result the order adds nothing to the
\* depth and is absent from the id and team indexes, a second remove_order
\* of the id returns false, and no other resting entry is changed.
C28_RemoveOrder ==
    loaded => \A id \in 1..(Len(rows) + 1) : RemoveOk(eng, id, remove_order(eng, id))

MaxDepthArg == 3

\* The levels are in strictly ascending (dir = 1) or descending (dir = -1)
\* price order and each has a quantity.
LevelsOrdered(levels, dir) ==
    /\ \A i \in 1..Len(levels) : levels[i].quantity > 0
    /\ \A i \in 1..(Len(levels) - 1) :
           IF dir = 1 THEN levels[i].price < levels[i + 1].price
           ELSE levels[i + 1].price < levels[i].price

\* C29: get_orderbook_levels(n) returns at most n levels per side for every
\* n >= 0, bids strictly descending and asks strictly ascending in price,
\* every level with a quantity > 0; the manager's get_orderbook_levels
\* returns two empty lists for a symbol that is unknown or not loaded.
C29_DepthLevels ==
    \A n \in 0..MaxDepthArg :
        /\ Len(engine_get_orderbook_levels(eng, n).bids) <= n
        /\ Len(engine_get_orderbook_levels(eng, n).asks) <= n
        /\ LevelsOrdered(engine_get_orderbook_levels(eng, n).bids, 0 - 1)
        /\ LevelsOrdered(engine_get_orderbook_levels(eng, n).asks, 1)
        /\ manager_get_orderbook_levels(FALSE, FALSE, eng, n) = [bids |-> <<>>, asks |-> <<>>]
        /\ ~loaded => manager_get_orderbook_levels(TRUE, loaded, eng, n)
                          = [bids |-> <<>>, asks |-> <<>>]
        /\ loaded => manager_get_orderbook_levels(TRUE, loaded, eng, n)
                          = engine_get_orderbook_levels(eng, n)

\* The resting orders of one side whose book entry is at the level of price p.
RestingAt(e, sk, p) ==
    {id \in OnBook(e, sk) : _price_to_float(e.lord[e.meta[id].liquibook_id].price) = p}

\* The sum of SimpleOrder.quantity over a sequence of order ids.
RECURSIVE SumQuantity(_, _)
SumQuantity(e, ids) ==
    IF ids = <<>> THEN 0 ELSE e.meta[Head(ids)].quantity + SumQuantity(e, Tail(ids))

\* The quantity the levels report at price p.
LevelQty(levels, p) == LevelSum(SelectSeq(levels, LAMBDA l : l.price = p))

\* C30: after add_order the quantity get_orderbook_levels reports for each
\* price level is the sum of SimpleOrder.quantity of the limit orders
\* resting at that price on that side, and an order's SimpleOrder.quantity
\* is 0 exactly when it no longer rests.
C30_LevelsSum ==
    Placed =>
        /\ \A sk \in {"bids", "asks"}, p \in 0..(2 * MaxHalf) :
               LevelQty(get_orderbook_levels(last.post)[sk], p)
                   = SumQuantity(last.post, SortAsc(RestingAt(last.post, sk, p)))
        /\ \A id \in DOMAIN last.post.meta :
               (last.post.meta[id].quantity = 0) <=> (id \notin Resting(last.post))

\* C31: after every place_and_match and every cancel_order the book update
\* built for the subscribers has the engine's levels as its bids and asks,
\* the remaining quantity of partially filled resting orders included.
C31_BookUpdate ==
    (loaded /\ last.op \in {"place", "cancel"}) =>
        get_order_book(rows) = get_orderbook_levels(eng)

\* The websockets whose send raised in the broadcast.
Failing == {notifier.disconnected[k] : k \in DOMAIN notifier.disconnected}

\* C32: a broadcast never fails the caller: a subscriber whose send raises,
\* or one that connects or disconnects while the broadcast awaits a send,
\* does not make the broadcast raise; the failing subscribers are dropped and
\* every other subscriber still connected has received the event.
C32_NotifierNeverFails ==
    /\ notifier.phase # "error"
    /\ notifier.phase = "ok" =>
           /\ \A w \in Failing : ~notifier.connections[w]
           /\ \A w \in notifier.started \ Failing :
                  notifier.connections[w] => w \in notifier.delivered

\* C33: an order request of type limit without a price is rejected with no
\* durable side-effect: no order row of type limit without a price exists,
\* and no trade names such an order.
C33_LimitNeedsPrice ==
    /\ \A id \in DOMAIN rows :
           rows[id].order_type = "limit" => rows[id].price # NoPrice
    /\ (Placed /\ rows[last.order.order_id].order_type = "limit") =>
           last.order.price # NoPrice

\* C34: every order row the order-entry path creates, position-limit
\* capping included, has quantity > 0, and every order place_and_match hands
\* to the engine has quantity > 0.
C34_PositiveQuantity ==
    /\ \A id \in DOMAIN rows : rows[id].quantity > 0
    /\ Placed => last.order.quantity > 0

\* C35: the book of a symbol is loaded from the store at most once: no
\* place_and_match loads a symbol that is already loaded, every later call
\* works on the book in memory.
C35_LoadedOnce == [][last'.op = "load" => ~loaded]_vars

\* The resting entries of the incoming order's team on the opposite side
\* whose price crosses the incoming order, in engine e.
CrossingOwn(e, order) ==
    {id \in Resting(e) :
        /\ e.meta[id].team_id = order.team_id
        /\ e.meta[id].side # order.side
        /\ _prices_cross(order.side, _price_to_int(order.price), e.meta[id].price_int)}

\* Entry c is priced at least as well as entry d for an incoming order of the
\* given side: the lower ask for a buy, the higher bid for a sell.
PricedBefore(e, side, c, d) ==
    IF side = "buy" THEN e.meta[c].price_int <= e.meta[d].price_int
    ELSE e.meta[c].price_int >= e.meta[d].price_int

\* C36: the self-trade pre-pass of add_order visits the team's crossing
\* entries best price first: when the incoming quantity is smaller than the
\* team's crossing quantity, every entry it cancels or reduces is priced at
\* least as well as every crossing entry of the team it leaves alone.
C36_StpPriceOrder ==
    (Placed /\ last.order.quantity
                   < SumQuantity(last.pre, SortAsc(CrossingOwn(last.pre, last.order)))) =>
        \A c \in CrossingOwn(last.pre, last.order) \cap Ids(last.cancels) :
            \A d \in CrossingOwn(last.pre, last.order) \ Ids(last.cancels) :
                PricedBefore(last.pre, last.order.side, c, d)

\* C37: after place_and_match the manager's caches hold no terminal order:
\* no id in order_models or simple_orders has a row with status filled or
\* cancelled, the incoming order included.
C37_NoTerminalCached ==
    Placed => \A id \in order_models \cup simple_orders :
                  rows[id].status \notin {"filled", "cancelled"}

\* The sum of position.quantity over the teams of a set.
RECURSIVE NetPosition(_, _)
NetPosition(pos, teams) ==
    IF teams = {} THEN 0
    ELSE LET t == CHOOSE u \in teams : TRUE
         IN pos[t].quantity + NetPosition(pos, teams \ {t})

\* C38: positions are zero-sum per symbol: after any sequence of
\* place_and_match calls and settlements the sum of position.quantity over
\* all teams of the symbol is 0.
C38_ZeroSum == NetPosition(positions, DOMAIN positions) = 0

\* C39: on a symbol that has a PositionLimit from the start, the position
\* of every team stays within the limit after any sequence of capped order
\* placements and their fills: -max_position <= quantity <= max_position.
C39_PositionWithinLimit ==
    \A t \in DOMAIN positions :
        /\ 0 - SymbolLimit[1].max_position <= positions[t].quantity
        /\ positions[t].quantity <= SymbolLimit[1].max_position

\* The trades and cancels of the add_order the last step ran.
StepResult ==
    IF last.op \in {"place", "match"} THEN [trades |-> last.trades, cancels |-> last.cancels]
    ELSE IF last.op = "load"
    THEN LET k == CHOOSE j \in DOMAIN inflight : inflight[j].id = last.id
         IN [trades |-> inflight[k].trades, cancels |-> inflight[k].cancels]
    ELSE [trades |-> <<>>, cancels |-> <<>>]

\* The orders the last step filled, cancelled or STP-cancelled.
StepConsumed ==
    {StepResult.trades[i].buyer_order_id : i \in DOMAIN StepResult.trades}
        \cup {StepResult.trades[i].seller_order_id : i \in DOMAIN StepResult.trades}
        \cup {StepResult.cancels[i].order_id : i \in DOMAIN StepResult.cancels}
        \cup (IF last.op = "cancel" THEN {last.id} ELSE {})

\* C40: an order resting in the symbol's engine stays there until it is
\* filled, cancelled or STP-cancelled: no step, the later-finishing load of
\* two concurrent first requests included, removes a resting order that its
\* own add_order did not fill or cancel.
C40_RestingStays ==
    [][last'.op # "restart" => Resting(eng) \ Resting(eng') \subseteq StepConsumed']_vars

====
